---- MODULE Spec2Model ----
(***************************************************************************)
(* The build-time content pipeline of scripts/build-optimize.js            *)
(* (class StaticBuildOptimizer): incremental rebuild of the JSON cache     *)
(* from the spreadsheets of data/excel, the manifest, the file-hash        *)
(* ledger, the sitemap and the static API copies.                          *)
(*                                                                         *)
(* JavaScript strings are modelled as sequences of one-character strings,  *)
(* so that endsWith, includes, basename, replace, toLowerCase, split,      *)
(* trim and the default sort do what the code's calls do.                  *)
(***************************************************************************)
EXTENDS Integers, Sequences, FiniteSets, TLC

\* -------------------------------------------------------------------------
\* Bounds of the model
\* -------------------------------------------------------------------------
\* number of pipeline runs (processes started) in one behaviour
MaxRuns == 2
\* number of edits of the source directory between runs
MaxEdits == 1
\* largest os.cpus().length tried
MaxCPUs == 2
\* rows of a spreadsheet given to a transformation called on its own
MaxRows == 2
\* characters before the ending of a file name whose subject is derived
MaxStem == 2
\* length of the longest content cell whose shortDesc is derived
MaxContent == 160

\* -------------------------------------------------------------------------
\* JavaScript string helpers
\* -------------------------------------------------------------------------
\* UTF-16 code units of the characters the model's strings are made of
CharCode(c) ==
  CASE c = " " -> 32  [] c = "." -> 46  [] c = "/" -> 47
    [] c = "1" -> 49  [] c = "2" -> 50
    [] c = "A" -> 65  [] c = "B" -> 66  [] c = "C" -> 67  [] c = "G" -> 71
    [] c = "J" -> 74  [] c = "T" -> 84
    [] c = "U" -> 85
    [] c = "_" -> 95
    [] c = "a" -> 97  [] c = "b" -> 98  [] c = "c" -> 99  [] c = "d" -> 100
    [] c = "e" -> 101 [] c = "g" -> 103 [] c = "h" -> 104 [] c = "i" -> 105
    [] c = "j" -> 106 [] c = "k" -> 107 [] c = "l" -> 108 [] c = "m" -> 109 [] c = "n" -> 110
    [] c = "o" -> 111 [] c = "p" -> 112 [] c = "r" -> 114 [] c = "s" -> 115
    [] c = "t" -> 116 [] c = "u" -> 117 [] c = "x" -> 120 [] c = "|" -> 124
    [] c = "-" -> 45
    [] OTHER -> 0

\* String.prototype.toLowerCase / toUpperCase on one character
LowerChar(c) ==
  CASE c = "A" -> "a" [] c = "B" -> "b" [] c = "G" -> "g" [] c = "T" -> "t"
    [] c = "U" -> "u" [] c = "C" -> "c" [] c = "J" -> "j" [] OTHER -> c

UpperChar(c) ==
  CASE c = "a" -> "A" [] c = "b" -> "B" [] c = "g" -> "G" [] c = "t" -> "T"
    [] c = "u" -> "U" [] c = "c" -> "C" [] c = "j" -> "J" [] OTHER -> c

RECURSIVE ToLowerCase(_)
ToLowerCase(s) ==
  IF s = <<>> THEN <<>> ELSE <<LowerChar(Head(s))>> \o ToLowerCase(Tail(s))

\* s.endsWith(suf)
EndsWith(s, suf) ==
  /\ Len(suf) <= Len(s)
  /\ SubSeq(s, Len(s) - Len(suf) + 1, Len(s)) = suf

\* s.indexOf(sub), 1-based; 0 when sub does not occur
IndexOf(s, sub) ==
  LET hits == {i \in 1..(Len(s) - Len(sub) + 1) : SubSeq(s, i, i + Len(sub) - 1) = sub}
  IN IF hits = {} THEN 0 ELSE CHOOSE i \in hits : \A j \in hits : i <= j

\* s.includes(sub)
Includes(s, sub) == IndexOf(s, sub) # 0

\* s.replace(pat, rep) with a string pattern: the first occurrence only
ReplaceFirst(s, pat, rep) ==
  LET i == IndexOf(s, pat)
  IN IF i = 0 THEN s
     ELSE SubSeq(s, 1, i - 1) \o rep \o SubSeq(s, i + Len(pat), Len(s))

\* path.basename(name, ext) for a name without directory separators
Basename(name, ext) ==
  IF EndsWith(name, ext) THEN SubSeq(name, 1, Len(name) - Len(ext)) ELSE name

\* s.trim(): the model's only white space is the blank
RECURSIVE TrimLeft(_)
TrimLeft(s) == IF s # <<>> /\ Head(s) = " " THEN TrimLeft(Tail(s)) ELSE s

RECURSIVE TrimRight(_)
TrimRight(s) ==
  IF s # <<>> /\ s[Len(s)] = " " THEN TrimRight(SubSeq(s, 1, Len(s) - 1)) ELSE s

Trim(s) == TrimRight(TrimLeft(s))

\* s.split(sep) for a one-character separator: Len >= 1, "" gives [""]
RECURSIVE Split(_, _)
Split(s, sep) ==
  LET i == IndexOf(s, <<sep>>)
  IN IF i = 0 THEN <<s>>
     ELSE <<SubSeq(s, 1, i - 1)>> \o Split(SubSeq(s, i + 1, Len(s)), sep)

\* a < b in the order of Array.prototype.sort() without a comparator
\* (code units, a proper prefix first)
RECURSIVE StrLess(_, _)
StrLess(a, b) ==
  IF b = <<>> THEN FALSE
  ELSE IF a = <<>> THEN TRUE
  ELSE IF CharCode(Head(a)) # CharCode(Head(b)) THEN CharCode(Head(a)) < CharCode(Head(b))
  ELSE StrLess(Tail(a), Tail(b))

\* the elements of a set of strings, as the array sort() leaves them
RECURSIVE SortStrings(_)
SortStrings(S) ==
  IF S = {} THEN <<>>
  ELSE LET m == CHOOSE x \in S : \A y \in S \ {x} : StrLess(x, y)
       IN <<m>> \o SortStrings(S \ {m})

\* str.charAt(0).toUpperCase() + str.slice(1)
capitalizeFirstLetter(str) ==
  IF str = <<>> THEN <<>> ELSE <<UpperChar(Head(str))>> \o Tail(str)

\* -------------------------------------------------------------------------
\* String literals of the code
\* -------------------------------------------------------------------------
DotXlsx == <<".", "x", "l", "s", "x">>
DotXls == <<".", "x", "l", "s">>
DotJson == <<".", "j", "s", "o", "n">>
HomeMark == <<"_", "h", "o", "m", "e">>
HomeDot == <<"_", "h", "o", "m", "e", ".">>
General == <<"G", "e", "n", "e", "r", "a", "l">>
Blogs == <<"b", "l", "o", "g", "s">>
TutorialSuffix == <<" ", "T", "u", "t", "o", "r", "i", "a", "l">>
UntitledPrefix == <<"U", "n", "t", "i", "t", "l", "e", "d", " ">>
PagePrefix == <<"p", "a", "g", "e", "-">>

\* `${n}` for the small row numbers of the model
NumStr(n) == IF n = 1 THEN <<"1">> ELSE IF n = 2 THEN <<"2">> ELSE <<"n">>

\* -------------------------------------------------------------------------
\* The source directory: file names and spreadsheet contents
\* -------------------------------------------------------------------------
\* "A.xlsx", "a.xlsx", "a_home.xlsx": names of data/excel
NameUpperA == <<"A">> \o DotXlsx
NameLowerA == <<"a">> \o DotXlsx
NameHomeA == <<"a">> \o HomeMark \o DotXlsx
FileNames == {NameUpperA, NameLowerA, NameHomeA}

\* A spreadsheet row as XLSX.utils.sheet_to_json gives it. An absent cell
\* (undefined) is the empty string (both are falsy), an absent number is 0.
\* The cells content, keywords, titleTag, descriptionTag, shortDesc are copied
\* to the artifact and read by no operation modelled here; they are left out.
RowFull ==
  [id |-> 0, title |-> <<"T", "1">>, url |-> <<"u", "1">>, type |-> 0,
   section |-> <<>>,
   sectionName |-> <<"B">>,
   tutorialTitles |-> <<"T", "1", "|", "T", "2">>,
   tutorialUrls |-> <<"u", "1", "|", "u", "2">>]
RowBare ==
  [id |-> 0, title |-> <<>>, url |-> <<>>, type |-> 0,
   section |-> <<"B">>,
   sectionName |-> <<>>,
   tutorialTitles |-> <<>>, tutorialUrls |-> <<>>]

\* What a file of the source directory can be: absent, unreadable
\* (readFileSync throws), bytes XLSX.read rejects, or a sheet of rows.
Absent == [kind |-> "absent", rows |-> <<>>]
Unreadable == [kind |-> "unreadable", rows |-> <<>>]
Corrupt == [kind |-> "corrupt", rows |-> <<>>]
Sheet(rows) == [kind |-> "sheet", rows |-> rows]
Sheets == {Sheet(<<>>), Sheet(<<RowBare>>), Sheet(<<RowFull, RowBare>>)}
Bytes == {Corrupt} \cup Sheets
FileStates == {Absent, Unreadable} \cup Bytes

\* crypto.createHash('md5').update(fileBuffer).digest('hex'): a digest per
\* byte content, distinct for the distinct contents of the model
Md5Table == <<Corrupt, Sheet(<<>>), Sheet(<<RowBare>>), Sheet(<<RowFull, RowBare>>)>>
getFileHash(bytes) == CHOOSE i \in 1..Len(Md5Table) : Md5Table[i] = bytes

\* -------------------------------------------------------------------------
\* processExcelFile: names
\* -------------------------------------------------------------------------
\* filename.includes('_home.')
isHomepage(filename) == Includes(filename, HomeDot)

\* path.basename(filename, '.xlsx')[.replace('_home', '')].toLowerCase()
subjectNameOf(filename) ==
  IF isHomepage(filename)
  THEN ToLowerCase(ReplaceFirst(Basename(filename, DotXlsx), HomeMark, <<>>))
  ELSE ToLowerCase(Basename(filename, DotXlsx))

\* `${subjectName}_home.json` or `${subjectName}.json`
outputFilename(filename) ==
  IF isHomepage(filename)
  THEN subjectNameOf(filename) \o HomeMark \o DotJson
  ELSE subjectNameOf(filename) \o DotJson

\* every artifact name the source directory can give rise to
CacheNames == {outputFilename(f) : f \in FileNames}

\* -------------------------------------------------------------------------
\* transformExcelDataOptimized
\* -------------------------------------------------------------------------
\* [...new Set(seq)]: the distinct elements in order of first appearance
RECURSIVE Distinct(_)
Distinct(seq) ==
  IF seq = <<>> THEN <<>>
  ELSE LET front == Distinct(SubSeq(seq, 1, Len(seq) - 1))
           last == seq[Len(seq)]
       IN IF \E i \in 1..Len(front) : front[i] = last THEN front ELSE Append(front, last)

\* the object built for row number index (0-based in the code, 1-based here)
ContentItem(row, index, now) ==
  [id |-> IF row.id # 0 THEN row.id ELSE index,
   title |-> IF row.title # <<>> THEN row.title ELSE UntitledPrefix \o NumStr(index),
   url |-> IF row.url # <<>> THEN row.url ELSE PagePrefix \o NumStr(index),
   type |-> IF row.type # 0 THEN row.type ELSE 1,
   section |-> IF row.section # <<>> THEN row.section ELSE General,
   lastModified |-> now]

\* the rows taken last to first
MapRows_Reversed(excelData, now) ==
  [i \in 1..Len(excelData) |-> ContentItem(excelData[Len(excelData) + 1 - i], i, now)]

\* excelData.map((row, index) => ...)
MapRows(excelData, now) ==
  [i \in 1..Len(excelData) |-> ContentItem(excelData[i], i, now)]

transformExcelDataOptimized(excelData, subjectName, now) ==
  LET content == MapRows(excelData, now)
      sections == Distinct([i \in 1..Len(content) |-> content[i].section])
  IN [type |-> "undefined",
      id |-> subjectName,
      name |-> capitalizeFirstLetter(subjectName),
      base_url |-> IF subjectName = Blogs THEN <<"/">> \o Blogs ELSE <<"/">> \o subjectName,
      content |-> content,
      sections |-> sections,
      totalPages |-> Len(content),
      totalSections |-> Len(sections),
      lastUpdated |-> now]

\* -------------------------------------------------------------------------
\* transformHomepageData, parsePipeSeparatedField, validateHomepageData
\* -------------------------------------------------------------------------
\* seq.filter(item => item.length > 0)
RECURSIVE FilterNonEmpty(_)
FilterNonEmpty(seq) ==
  IF seq = <<>> THEN <<>>
  ELSE IF Head(seq) = <<>> THEN FilterNonEmpty(Tail(seq))
  ELSE <<Head(seq)>> \o FilterNonEmpty(Tail(seq))

RECURSIVE TrimAll(_)
TrimAll(seq) ==
  IF seq = <<>> THEN <<>> ELSE <<Trim(Head(seq))>> \o TrimAll(Tail(seq))

parsePipeSeparatedField(fieldValue) ==
  IF fieldValue = <<>> THEN <<>>
  ELSE FilterNonEmpty(TrimAll(Split(fieldValue, "|")))

Min(a, b) == IF a <= b THEN a ELSE b

\* the tutorials of one row: both lists cut to the shorter one, then the
\* pairs whose title and url are both non-empty
RECURSIVE TutorialPairs(_, _)
TutorialPairs(titles, urls) ==
  IF titles = <<>> \/ urls = <<>> THEN <<>>
  ELSE (IF Head(titles) # <<>> /\ Head(urls) # <<>>
        THEN <<[title |-> Head(titles), url |-> Head(urls)]>>
        ELSE <<>>) \o TutorialPairs(Tail(titles), Tail(urls))

\* the lists paired as they are: the longer one is not cut, a missing cell
\* is paired as the empty string, and no pair is dropped
RowTutorials_Padded(row) ==
  LET tutorialTitles == parsePipeSeparatedField(row.tutorialTitles)
      tutorialUrls == parsePipeSeparatedField(row.tutorialUrls)
      maxLength == IF Len(tutorialTitles) >= Len(tutorialUrls)
                   THEN Len(tutorialTitles) ELSE Len(tutorialUrls)
  IN [j \in 1..maxLength |->
        [title |-> IF j <= Len(tutorialTitles) THEN tutorialTitles[j] ELSE <<>>,
         url |-> IF j <= Len(tutorialUrls) THEN tutorialUrls[j] ELSE <<>>]]

RowTutorials(row) ==
  LET tutorialTitles == parsePipeSeparatedField(row.tutorialTitles)
      tutorialUrls == parsePipeSeparatedField(row.tutorialUrls)
      minLength == Min(Len(tutorialTitles), Len(tutorialUrls))
  IN TutorialPairs(SubSeq(tutorialTitles, 1, minLength), SubSeq(tutorialUrls, 1, minLength))

\* excelData.forEach(...): one section pushed per row that has tutorials
RECURSIVE HomepageSections(_)
HomepageSections(excelData) ==
  IF excelData = <<>> THEN <<>>
  ELSE LET row == excelData[Len(excelData)]
           sectionName == IF Trim(row.sectionName) # <<>> THEN Trim(row.sectionName) ELSE General
           tutorials == RowTutorials(row)
           before == HomepageSections(SubSeq(excelData, 1, Len(excelData) - 1))
       IN IF tutorials # <<>>
          THEN Append(before, [name |-> sectionName, tutorials |-> tutorials])
          ELSE before

RECURSIVE SumTutorials(_)
SumTutorials(sections) ==
  IF sections = <<>> THEN 0 ELSE Len(Head(sections).tutorials) + SumTutorials(Tail(sections))

\* the first row taken as a row of metadata whatever it holds
transformHomepageData_FirstRowMetadataOnly(excelData, subjectName, now) ==
  LET firstRow == excelData[1]
      sections == HomepageSections(Tail(excelData))
  IN [type |-> "homepage",
      id |-> subjectName \o HomeMark,
      subjectId |-> subjectName,
      title |-> IF firstRow.title # <<>> THEN firstRow.title
                ELSE capitalizeFirstLetter(subjectName) \o TutorialSuffix,
      sections |-> sections,
      totalSections |-> Len(sections),
      totalTutorials |-> SumTutorials(sections),
      lastUpdated |-> now]

\* called with at least one row (processExcelFile has thrown on zero rows)
transformHomepageData(excelData, subjectName, now) ==
  LET firstRow == excelData[1]
      sections == HomepageSections(excelData)
  IN [type |-> "homepage",
      id |-> subjectName \o HomeMark,
      subjectId |-> subjectName,
      title |-> IF firstRow.title # <<>> THEN firstRow.title
                ELSE capitalizeFirstLetter(subjectName) \o TutorialSuffix,
      sections |-> sections,
      totalSections |-> Len(sections),
      totalTutorials |-> SumTutorials(sections),
      lastUpdated |-> now]

\* TRUE when validateHomepageData returns, FALSE when it throws
validateHomepageData(data) ==
  /\ data.title # <<>>
  /\ data.sections # <<>>
  /\ \A i \in 1..Len(data.sections) :
       /\ data.sections[i].name # <<>>
       /\ \A j \in 1..Len(data.sections[i].tutorials) :
            /\ data.sections[i].tutorials[j].title # <<>>
            /\ data.sections[i].tutorials[j].url # <<>>

\* -------------------------------------------------------------------------
\* processExcelFile
\* -------------------------------------------------------------------------
\* the artifact written before the homepage is validated
ProcessFails_NoValidation(filename, file, now) ==
  \/ file.kind # "sheet"
  \/ file.rows = <<>>

\* TRUE when processExcelFile throws for this file: the file cannot be read,
\* XLSX.read rejects it, it has no row, or the homepage fails validation
ProcessFails(filename, file, now) ==
  \/ file.kind # "sheet"
  \/ file.rows = <<>>
  \/ /\ isHomepage(filename)
     /\ ~validateHomepageData(transformHomepageData(file.rows, subjectNameOf(filename), now))

\* the object written to the cache when processExcelFile does not throw
transformedData(filename, file, now) ==
  IF isHomepage(filename)
  THEN transformHomepageData(file.rows, subjectNameOf(filename), now)
  ELSE transformExcelDataOptimized(file.rows, subjectNameOf(filename), now)

\* result.pages
ResultPages(filename, data) ==
  IF isHomepage(filename) THEN Len(data.sections) ELSE Len(data.content)

\* -------------------------------------------------------------------------
\* State
\* -------------------------------------------------------------------------
VARIABLES
  \* the environment
  cpus,            \* os.cpus().length
  dataDirExists,   \* data/excel exists
  src,             \* data/excel: file name -> what the file is
  \* .next-cache and public/, as left by the runs so far
  cache,           \* artifact name -> parsed JSON, for the artifacts that exist
  hashFile,        \* file-hashes.json: <<>> when absent, else <<ledger>>
  manifestFile,    \* manifest.json: <<>> when absent, else <<manifest>>
  sitemap,         \* public/sitemap.xml: <<>> when absent, else <<entries>>
  robots,          \* public/robots.txt exists
  apiManifest,     \* public/api/manifest.json: <<>> or <<manifest>>
  apiSubjects,     \* public/api/subjects.json: <<>> or <<list>>
  apiData,         \* public/api/data: artifact name -> parsed JSON
  \* the running process (one StaticBuildOptimizer)
  pc,              \* where optimize() is
  exitCode,        \* -1 while running or before any run, else the exit code
  fileHashes,      \* this.fileHashes
  manifest,        \* this.manifest
  stats,           \* this.stats
  allFiles,        \* getExcelFiles()
  idx,             \* detectChangedFiles: index of the next file to hash
  changedFiles,
  unchangedFiles,
  chunks,          \* processFilesInParallel: chunkArray(files, parallelWorkers)
  chunkStats,      \* one chunkStats per processChunk
  done,            \* number of processExcelFile calls finished in this run
  \* history, read by the properties only
  runs,            \* processes started so far (also the clock of new Date())
  edits,           \* edits of the source directory so far
  lastSrc,         \* src when the current (or last) run started
  lastDir,         \* dataDirExists when the current (or last) run started
  startCache,      \* cache when the current (or last) run started
  startFiles,      \* the other generated files when that run started
  prev,            \* how the run before the current one went
  written,         \* files other than artifacts written by the current run
  writtenArtifacts,\* artifacts written by the current run
  attempts,        \* file name -> processExcelFile calls in the current run
  contrib,         \* file name -> pages it added to stats.totalPages
  \* a function of the scripts called on its own
  arg,             \* the function and the argument it is called with
  ret,             \* what the call returned
  \* the process that renders the pages (the static cache reader)
  cachedManifest,  \* let cachedManifest: <<>> for null, else <<manifest>>
  cachedDataMap,   \* let cachedData = new Map(): subject id -> parsed JSON
  returned,        \* the reader's last call and what it returned
  \* the process that reads the spreadsheets itself (lib/data/excelReader.js)
  dataCache,       \* const dataCache = new Map(): file name -> parsed data
  \* scripts/deploy-prepare.js and what it looks at
  cacheDirExists,  \* .next-cache exists
  deploymentInfo,  \* public/deployment-info.json exists
  preparer         \* where prepare() is, its exit code and the steps it has run

envVars == <<cpus, dataDirExists, src>>
diskVars == <<cache, hashFile, manifestFile, sitemap, robots, apiManifest, apiSubjects, apiData>>
procVars == <<pc, exitCode, fileHashes, manifest, stats, allFiles, idx, changedFiles,
              unchangedFiles, chunks, chunkStats, done>>
histVars == <<runs, edits, lastSrc, lastDir, startCache, startFiles, prev, written, writtenArtifacts, attempts, contrib>>
callVars == <<arg, ret>>
readerVars == <<cachedManifest, cachedDataMap, returned>>
deployVars == <<cacheDirExists, deploymentInfo, preparer>>
auxVars == <<callVars, readerVars, dataCache, deployVars>>
vars == <<envVars, diskVars, procVars, histVars, auxVars>>

\* no call made yet
NoCall == [fn |-> "none"]

\* prepare() not started
NotPreparing == [pc |-> "idle", exitCode |-> -1, steps |-> <<>>]

\* Math.min(os.cpus().length, 8)
MaxWorkers == 8
parallelWorkers == Min(cpus, MaxWorkers)

\* the object loadManifest returns when there is no manifest.json
EmptyManifest ==
  [subjects |-> <<>>, homepages |-> <<>>, totalFiles |-> 0, totalPages |-> 0,
   lastUpdated |-> 0, buildStats |-> [filesProcessed |-> 0, filesSkipped |-> 0]]

ZeroStats == [filesProcessed |-> 0, filesSkipped |-> 0, totalPages |-> 0, errors |-> 0]
ZeroChunkStats == [filesProcessed |-> 0, totalPages |-> 0, errors |-> 0]

NoFiles == [f \in FileNames |-> Absent]
NoCounts == [f \in FileNames |-> 0]

\* a fresh checkout: no cache, nothing generated; the source directory holds
\* any mix of absent, empty and well-formed spreadsheets, or does not exist
InitSheets == {Absent, Sheet(<<>>), Sheet(<<RowFull, RowBare>>)}

Init ==
  /\ cpus \in 1..MaxCPUs
  /\ dataDirExists \in BOOLEAN
  /\ src \in [FileNames -> InitSheets]
  /\ dataDirExists = FALSE => src = NoFiles
  /\ cache = <<>>
  /\ hashFile = <<>>
  /\ manifestFile = <<>>
  /\ sitemap = <<>>
  /\ robots = FALSE
  /\ apiManifest = <<>>
  /\ apiSubjects = <<>>
  /\ apiData = <<>>
  /\ pc = "idle"
  /\ exitCode = -1
  /\ fileHashes = <<>>
  /\ manifest = EmptyManifest
  /\ stats = ZeroStats
  /\ allFiles = <<>>
  /\ idx = 1
  /\ changedFiles = <<>>
  /\ unchangedFiles = <<>>
  /\ chunks = <<>>
  /\ chunkStats = <<>>
  /\ done = 0
  /\ runs = 0
  /\ edits = 0
  /\ lastSrc = NoFiles
  /\ lastDir = FALSE
  /\ startCache = <<>>
  /\ startFiles = <<<<>>, <<>>, <<>>, FALSE>>
  /\ prev = [completed |-> FALSE, src |-> NoFiles, manifest |-> <<>>]
  /\ written = {}
  /\ writtenArtifacts = {}
  /\ attempts = NoCounts
  /\ contrib = NoCounts
  /\ arg = NoCall
  /\ ret = NoCall
  /\ cachedManifest = <<>>
  /\ cachedDataMap = <<>>
  /\ returned = NoCall
  /\ dataCache = <<>>
  /\ cacheDirExists = FALSE
  /\ deploymentInfo = FALSE
  /\ preparer = NotPreparing

\* -------------------------------------------------------------------------
\* The environment: the source directory is edited between runs
\* -------------------------------------------------------------------------
NotRunning == pc \in {"idle", "done", "failed"}

EditFile(f, s) ==
  /\ NotRunning
  /\ edits < MaxEdits
  /\ runs < MaxRuns
  /\ dataDirExists
  /\ s # src[f]
  /\ src' = [src EXCEPT ![f] = s]
  /\ edits' = edits + 1
  /\ UNCHANGED <<auxVars, cpus, dataDirExists, diskVars, procVars,
                 runs, lastSrc, lastDir, startCache, startFiles, prev, written, writtenArtifacts, attempts, contrib>>

RemoveDataDir ==
  /\ NotRunning
  /\ edits < MaxEdits
  /\ runs < MaxRuns
  /\ dataDirExists
  /\ dataDirExists' = FALSE
  /\ src' = NoFiles
  /\ edits' = edits + 1
  /\ UNCHANGED <<auxVars, cpus, diskVars, procVars,
                 runs, lastSrc, lastDir, startCache, startFiles, prev, written, writtenArtifacts, attempts, contrib>>

CreateDataDir ==
  /\ NotRunning
  /\ edits < MaxEdits
  /\ runs < MaxRuns
  /\ ~dataDirExists
  /\ dataDirExists' = TRUE
  /\ edits' = edits + 1
  /\ UNCHANGED <<auxVars, cpus, src, diskVars, procVars,
                 runs, lastSrc, lastDir, startCache, startFiles, prev, written, writtenArtifacts, attempts, contrib>>

\* -------------------------------------------------------------------------
\* A run: new StaticBuildOptimizer().optimize()
\* -------------------------------------------------------------------------
\* the ledger never found
loadFileHashes_Empty == <<>>

loadFileHashes == IF hashFile = <<>> THEN <<>> ELSE hashFile[1]
loadManifest == IF manifestFile = <<>> THEN EmptyManifest ELSE manifestFile[1]

\* the constructor, and optimize() up to ensureDirectories (which creates
\* the directories that are missing, .next-cache among them)
Start ==
  /\ NotRunning
  /\ runs < MaxRuns
  /\ pc' = "list"
  /\ exitCode' = -1
  /\ fileHashes' = loadFileHashes
  /\ manifest' = loadManifest
  /\ stats' = ZeroStats
  /\ allFiles' = <<>>
  /\ idx' = 1
  /\ changedFiles' = <<>>
  /\ unchangedFiles' = <<>>
  /\ chunks' = <<>>
  /\ chunkStats' = <<>>
  /\ done' = 0
  /\ runs' = runs + 1
  /\ prev' = [completed |-> pc = "done", src |-> lastSrc, manifest |-> manifestFile]
  /\ lastSrc' = src
  /\ lastDir' = dataDirExists
  /\ startCache' = cache
  /\ startFiles' = <<hashFile, manifestFile, sitemap, robots>>
  /\ written' = {}
  /\ writtenArtifacts' = {}
  /\ attempts' = NoCounts
  /\ contrib' = NoCounts
  /\ cacheDirExists' = TRUE
  /\ UNCHANGED <<callVars, readerVars, dataCache, deploymentInfo, preparer,
                 envVars, diskVars, edits>>

\* the catch of optimize(): process.exit(1)
Abort ==
  /\ pc' = "failed"
  /\ exitCode' = 1

\* file => file.endsWith('.xlsx') || file.endsWith('.xls')
IsExcelName(file) == EndsWith(file, DotXlsx) \/ EndsWith(file, DotXls)

\* the check left out, the directory created like the others
DataDirMissing_Never == FALSE

\* !fs.existsSync(DATA_DIR)
DataDirMissing == ~dataDirExists

getExcelFiles ==
  SortStrings({f \in FileNames : src[f].kind # "absent" /\ IsExcelName(f)})

GetExcelFiles ==
  /\ pc = "list"
  /\ IF DataDirMissing
     THEN /\ Abort
          /\ UNCHANGED allFiles
     ELSE /\ allFiles' = getExcelFiles
          /\ pc' = "detect"
          /\ UNCHANGED exitCode
  /\ UNCHANGED <<auxVars, envVars, diskVars, histVars, fileHashes, manifest, stats, idx,
                 changedFiles, unchangedFiles, chunks, chunkStats, done>>

\* the ledger looked up by the file's path instead of its name: no entry
\* is ever found
HashDiffers_ByPath(ledger, filename, currentHash) == TRUE

\* currentHash !== previousHash
HashDiffers(ledger, filename, currentHash) ==
  \/ filename \notin DOMAIN ledger
  \/ ledger[filename] # currentHash

\* one iteration of the loop of detectChangedFiles; getFileHash throws when
\* the file cannot be read, and nothing between it and optimize() catches
DetectChangedFiles ==
  /\ pc = "detect"
  /\ idx <= Len(allFiles)
  /\ LET filename == allFiles[idx]
     IN IF src[filename].kind = "unreadable"
        THEN /\ Abort
             /\ UNCHANGED <<fileHashes, idx, changedFiles, unchangedFiles>>
        ELSE LET currentHash == getFileHash(src[filename])
             IN /\ IF HashDiffers(fileHashes, filename, currentHash)
                   THEN /\ changedFiles' = Append(changedFiles, filename)
                        /\ fileHashes' = (filename :> currentHash) @@ fileHashes
                        /\ UNCHANGED unchangedFiles
                   ELSE /\ unchangedFiles' = Append(unchangedFiles, filename)
                        /\ UNCHANGED <<changedFiles, fileHashes>>
                /\ idx' = idx + 1
                /\ UNCHANGED <<pc, exitCode>>
  /\ UNCHANGED <<auxVars, envVars, diskVars, histVars, manifest, stats, allFiles,
                 chunks, chunkStats, done>>

\* -------------------------------------------------------------------------
\* processFilesInParallel, processChunk
\* -------------------------------------------------------------------------
\* the loop left after the first slice
chunkArray_FirstSliceOnly(array, chunkSize) ==
  IF array = <<>> THEN <<>> ELSE <<SubSeq(array, 1, Min(chunkSize, Len(array)))>>

RECURSIVE chunkArray(_, _)
chunkArray(array, chunkSize) ==
  IF array = <<>> THEN <<>>
  ELSE <<SubSeq(array, 1, Min(chunkSize, Len(array)))>>
       \o chunkArray(SubSeq(array, chunkSize + 1, Len(array)), chunkSize)

\* The order in which the processChunk coroutines started by chunks.map reach
\* their processExcelFile calls: each runs to its first await, and every
\* await of a settled promise costs the same number of ticks, so the calls
\* go round the chunks, file j of every chunk before file j + 1 of any.
RECURSIVE RoundFrom(_, _, _)
RoundFrom(cs, c, j) ==
  IF c > Len(cs) THEN <<>>
  ELSE (IF j <= Len(cs[c]) THEN <<[chunk |-> c, file |-> cs[c][j]]>> ELSE <<>>)
       \o RoundFrom(cs, c + 1, j)

RECURSIVE CallsFrom(_, _)
CallsFrom(cs, j) ==
  IF \A c \in 1..Len(cs) : j > Len(cs[c]) THEN <<>>
  ELSE RoundFrom(cs, 1, j) \o CallsFrom(cs, j + 1)

CallOrder(cs) == CallsFrom(cs, 1)

ProcessFilesInParallel ==
  /\ pc = "detect"
  /\ idx > Len(allFiles)
  /\ IF changedFiles # <<>>
     THEN /\ chunks' = chunkArray(changedFiles, parallelWorkers)
          /\ chunkStats' = [c \in 1..Len(chunks') |-> ZeroChunkStats]
          /\ done' = 0
          /\ pc' = "process"
     ELSE /\ pc' = "copy"
          /\ UNCHANGED <<chunks, chunkStats, done>>
  /\ UNCHANGED <<auxVars, envVars, diskVars, histVars, exitCode, fileHashes, manifest, stats,
                 allFiles, idx, changedFiles, unchangedFiles>>

\* one iteration of the loop of a processChunk: a call of processExcelFile
\* and the bookkeeping of its result or of its exception
ProcessExcelFile ==
  /\ pc = "process"
  /\ done < Len(CallOrder(chunks))
  /\ LET call == CallOrder(chunks)[done + 1]
         filename == call.file
         c == call.chunk
     IN /\ IF ProcessFails(filename, src[filename], runs)
           THEN /\ chunkStats' = [chunkStats EXCEPT ![c].errors = @ + 1]
                /\ UNCHANGED <<cache, writtenArtifacts, contrib>>
           ELSE LET data == transformedData(filename, src[filename], runs)
                    pages == ResultPages(filename, data)
                IN /\ cache' = (outputFilename(filename) :> data) @@ cache
                   /\ writtenArtifacts' = writtenArtifacts \cup {outputFilename(filename)}
                   /\ chunkStats' = [chunkStats EXCEPT ![c].filesProcessed = @ + 1,
                                                       ![c].totalPages = @ + pages]
                   /\ contrib' = [contrib EXCEPT ![filename] = @ + pages]
        /\ attempts' = [attempts EXCEPT ![filename] = @ + 1]
  /\ done' = done + 1
  /\ UNCHANGED <<auxVars, envVars, hashFile, manifestFile, sitemap, robots, apiManifest,
                 apiSubjects, apiData, pc, exitCode, fileHashes, manifest, stats,
                 allFiles, idx, changedFiles, unchangedFiles, chunks,
                 runs, edits, lastSrc, lastDir, startCache, startFiles, prev, written>>

RECURSIVE SumField(_, _)
SumField(seq, field) ==
  IF seq = <<>> THEN 0 ELSE Head(seq)[field] + SumField(Tail(seq), field)

\* the errors of the chunks not added
MergedStats_NoErrors(st, results) ==
  [st EXCEPT !.filesProcessed = @ + SumField(results, "filesProcessed"),
             !.totalPages = @ + SumField(results, "totalPages")]

\* results.forEach(result => { this.stats.filesProcessed += ...; ... })
MergedStats(st, results) ==
  [st EXCEPT !.filesProcessed = @ + SumField(results, "filesProcessed"),
             !.totalPages = @ + SumField(results, "totalPages"),
             !.errors = @ + SumField(results, "errors")]

\* processFilesInParallel after Promise.all has settled
MergeResults ==
  /\ pc = "process"
  /\ done = Len(CallOrder(chunks))
  /\ stats' = MergedStats(stats, chunkStats)
  /\ pc' = "copy"
  /\ UNCHANGED <<auxVars, envVars, diskVars, histVars, exitCode, fileHashes, manifest,
                 allFiles, idx, changedFiles, unchangedFiles, chunks, chunkStats, done>>

\* -------------------------------------------------------------------------
\* copyUnchangedFiles
\* -------------------------------------------------------------------------
\* a missing artifact made up for from the source file
CachedPages_FromSource(files, filename) ==
  IF outputFilename(filename) \notin DOMAIN files
  THEN (IF src[filename].kind = "sheet" THEN Len(src[filename].rows) ELSE 0)
  ELSE LET cachedData == files[outputFilename(filename)]
       IN IF isHomepage(filename) THEN Len(cachedData.sections)
          ELSE IF cachedData.type # "homepage" THEN Len(cachedData.content)
          ELSE 0

\* what one unchanged file adds to stats.totalPages
CachedPages(files, filename) ==
  IF outputFilename(filename) \notin DOMAIN files THEN 0
  ELSE LET cachedData == files[outputFilename(filename)]
       IN IF isHomepage(filename) THEN Len(cachedData.sections)
          ELSE IF cachedData.type # "homepage" THEN Len(cachedData.content)
          ELSE 0

RECURSIVE SumCachedPages(_, _)
SumCachedPages(files, names) ==
  IF names = <<>> THEN 0
  ELSE CachedPages(files, Head(names)) + SumCachedPages(files, Tail(names))

\* filesSkipped counted in the loop, for the unchanged files whose artifact
\* is found
CopyUnchangedFiles_SkippedCounted ==
  /\ pc = "copy"
  /\ stats' = [stats EXCEPT
                 !.filesSkipped = Len(SelectSeq(unchangedFiles,
                                     LAMBDA f : outputFilename(f) \in DOMAIN cache)),
                 !.totalPages = @ + SumCachedPages(cache, unchangedFiles)]
  /\ contrib' = [f \in FileNames |->
                   IF \E i \in 1..Len(unchangedFiles) : unchangedFiles[i] = f
                   THEN contrib[f] + CachedPages(cache, f)
                   ELSE contrib[f]]
  /\ pc' = "manifest"
  /\ UNCHANGED <<auxVars, envVars, diskVars, exitCode, fileHashes, manifest, allFiles, idx,
                 changedFiles, unchangedFiles, chunks, chunkStats, done,
                 runs, edits, lastSrc, lastDir, startCache, startFiles, prev, written, writtenArtifacts, attempts>>

CopyUnchangedFiles ==
  /\ pc = "copy"
  /\ stats' = [stats EXCEPT !.filesSkipped = Len(unchangedFiles),
                            !.totalPages = @ + SumCachedPages(cache, unchangedFiles)]
  /\ contrib' = [f \in FileNames |->
                   IF \E i \in 1..Len(unchangedFiles) : unchangedFiles[i] = f
                   THEN contrib[f] + CachedPages(cache, f)
                   ELSE contrib[f]]
  /\ pc' = "manifest"
  /\ UNCHANGED <<auxVars, envVars, diskVars, exitCode, fileHashes, manifest, allFiles, idx,
                 changedFiles, unchangedFiles, chunks, chunkStats, done,
                 runs, edits, lastSrc, lastDir, startCache, startFiles, prev, written, writtenArtifacts, attempts>>

\* -------------------------------------------------------------------------
\* updateManifest, saveManifest, saveFileHashes
\* -------------------------------------------------------------------------
\* fs.readdirSync(CACHE_DIR) filtered to the artifacts. The ledger and the
\* manifest are kept in variables of their own, so every name of the cache
\* map passes the filter; the listing is taken in sorted order.
cacheFiles(files) == SortStrings(DOMAIN files)

homepageInfo(data) ==
  [id |-> data.id, subjectId |-> data.subjectId, title |-> data.title,
   totalSections |-> data.totalSections, totalTutorials |-> data.totalTutorials,
   lastModified |-> data.lastUpdated]

\* id taken from the display name
subjectInfo_NameAsId(data) ==
  [id |-> data.name, name |-> data.name, base_url |-> data.base_url,
   totalPages |-> Len(data.content),
   totalSections |-> IF data.totalSections # 0 THEN data.totalSections ELSE 1,
   sections |-> IF data.sections # <<>> THEN data.sections ELSE <<General>>,
   lastModified |-> data.lastUpdated]

subjectInfo(data) ==
  [id |-> data.id, name |-> data.name, base_url |-> data.base_url,
   totalPages |-> Len(data.content),
   totalSections |-> IF data.totalSections # 0 THEN data.totalSections ELSE 1,
   sections |-> IF data.sections # <<>> THEN data.sections ELSE <<General>>,
   lastModified |-> data.lastUpdated]

\* the loop over cacheFiles: what is pushed to manifest.homepages
RECURSIVE ManifestHomepages(_, _)
ManifestHomepages(files, names) ==
  IF names = <<>> THEN <<>>
  ELSE (IF files[Head(names)].type = "homepage"
        THEN <<homepageInfo(files[Head(names)])>> ELSE <<>>)
       \o ManifestHomepages(files, Tail(names))

\* the loop over cacheFiles: what is pushed to manifest.subjects
RECURSIVE ManifestSubjects(_, _)
ManifestSubjects(files, names) ==
  IF names = <<>> THEN <<>>
  ELSE (IF files[Head(names)].type # "homepage"
        THEN <<subjectInfo(files[Head(names)])>> ELSE <<>>)
       \o ManifestSubjects(files, Tail(names))

\* the count also fed by the homepage branch
RECURSIVE totalPagesCount_WithHomepages(_, _)
totalPagesCount_WithHomepages(files, names) ==
  IF names = <<>> THEN 0
  ELSE (IF files[Head(names)].type # "homepage"
        THEN Len(files[Head(names)].content)
        ELSE files[Head(names)].totalSections)
       + totalPagesCount_WithHomepages(files, Tail(names))

\* the loop over cacheFiles: totalPagesCount
RECURSIVE totalPagesCount(_, _)
totalPagesCount(files, names) ==
  IF names = <<>> THEN 0
  ELSE (IF files[Head(names)].type # "homepage"
        THEN subjectInfo(files[Head(names)]).totalPages ELSE 0)
       + totalPagesCount(files, Tail(names))

UpdateManifest ==
  /\ pc = "manifest"
  /\ manifest' =
       [subjects |-> ManifestSubjects(cache, cacheFiles(cache)),
        homepages |-> ManifestHomepages(cache, cacheFiles(cache)),
        totalFiles |-> Len(allFiles),
        totalPages |-> totalPagesCount(cache, cacheFiles(cache)),
        lastUpdated |-> runs,
        buildStats |-> [filesProcessed |-> stats.filesProcessed,
                        filesSkipped |-> stats.filesSkipped]]
  /\ pc' = "saveManifest"
  /\ UNCHANGED <<auxVars, envVars, diskVars, histVars, exitCode, fileHashes, stats, allFiles, idx,
                 changedFiles, unchangedFiles, chunks, chunkStats, done>>

SaveManifest ==
  /\ pc = "saveManifest"
  /\ manifestFile' = <<manifest>>
  /\ written' = written \cup {"manifest.json"}
  /\ pc' = "saveHashes"
  /\ UNCHANGED <<auxVars, envVars, cache, hashFile, sitemap, robots, apiManifest, apiSubjects,
                 apiData, exitCode, fileHashes, manifest, stats, allFiles, idx,
                 changedFiles, unchangedFiles, chunks, chunkStats, done,
                 runs, edits, lastSrc, lastDir, startCache, startFiles, prev, writtenArtifacts, attempts, contrib>>

SaveFileHashes ==
  /\ pc = "saveHashes"
  /\ hashFile' = <<fileHashes>>
  /\ written' = written \cup {"file-hashes.json"}
  /\ pc' = "seo"
  /\ UNCHANGED <<auxVars, envVars, cache, manifestFile, sitemap, robots, apiManifest, apiSubjects,
                 apiData, exitCode, fileHashes, manifest, stats, allFiles, idx,
                 changedFiles, unchangedFiles, chunks, chunkStats, done,
                 runs, edits, lastSrc, lastDir, startCache, startFiles, prev, writtenArtifacts, attempts, contrib>>

\* -------------------------------------------------------------------------
\* generateSEOFiles, generateStaticAPI
\* -------------------------------------------------------------------------
\* the entries pushed for one artifact (the host name is left out of url)
RECURSIVE ItemEntries(_, _)
ItemEntries(data, items) ==
  IF items = <<>> THEN <<>>
  ELSE (IF Head(items).url = <<>> THEN <<>>
        ELSE <<[url |-> (IF data.id = Blogs THEN <<"/">> \o Blogs
                         ELSE <<"/">> \o data.id) \o <<"/">> \o Head(items).url,
                lastmod |-> Head(items).lastModified]>>)
       \o ItemEntries(data, Tail(items))

\* a homepage document listed too, by the path of its subject
RECURSIVE sitemapEntries_WithHomepages(_, _, _)
sitemapEntries_WithHomepages(files, names, now) ==
  IF names = <<>> THEN <<[url |-> <<>>, lastmod |-> now]>>
  ELSE sitemapEntries_WithHomepages(files, SubSeq(names, 1, Len(names) - 1), now)
       \o (IF files[names[Len(names)]].type = "homepage"
           THEN <<[url |-> <<"/">> \o files[names[Len(names)]].subjectId,
                   lastmod |-> files[names[Len(names)]].lastUpdated]>>
           ELSE ItemEntries(files[names[Len(names)]], files[names[Len(names)]].content))

RECURSIVE sitemapEntries(_, _, _)
sitemapEntries(files, names, now) ==
  IF names = <<>> THEN <<[url |-> <<>>, lastmod |-> now]>>
  ELSE sitemapEntries(files, SubSeq(names, 1, Len(names) - 1), now)
       \o (IF files[names[Len(names)]].type = "homepage" THEN <<>>
           ELSE ItemEntries(files[names[Len(names)]], files[names[Len(names)]].content))

GenerateSEOFiles ==
  /\ pc = "seo"
  /\ sitemap' = <<sitemapEntries(cache, cacheFiles(cache), runs)>>
  /\ robots' = TRUE
  /\ written' = written \cup {"sitemap.xml", "robots.txt"}
  /\ pc' = "api"
  /\ UNCHANGED <<auxVars, envVars, cache, hashFile, manifestFile, apiManifest, apiSubjects,
                 apiData, exitCode, fileHashes, manifest, stats, allFiles, idx,
                 changedFiles, unchangedFiles, chunks, chunkStats, done,
                 runs, edits, lastSrc, lastDir, startCache, startFiles, prev, writtenArtifacts, attempts, contrib>>

\* s => ({id, name, base_url, totalPages, totalSections, sections})
subjectListEntry(s) ==
  [id |-> s.id, name |-> s.name, base_url |-> s.base_url, totalPages |-> s.totalPages,
   totalSections |-> s.totalSections, sections |-> s.sections]

\* generateStaticAPI, first half: manifest.json is copied and subjects.json
\* written
GenerateStaticAPIManifest ==
  /\ pc = "api"
  /\ apiManifest' = IF manifestFile # <<>> THEN manifestFile ELSE apiManifest
  /\ apiSubjects' = <<[i \in 1..Len(manifest.subjects) |->
                         subjectListEntry(manifest.subjects[i])]>>
  /\ written' = written \cup {"api/manifest.json", "api/subjects.json"}
  /\ pc' = "apiData"
  /\ UNCHANGED <<auxVars, envVars, cache, hashFile, manifestFile, sitemap, robots,
                 apiData, exitCode, fileHashes, manifest, stats, allFiles, idx,
                 changedFiles, unchangedFiles, chunks, chunkStats, done,
                 runs, edits, lastSrc, lastDir, startCache, startFiles, prev, writtenArtifacts, attempts, contrib>>

\* generateStaticAPI, second half: every artifact is copied to api/data;
\* then showOptimizedStats, and the process ends with exit code 0
GenerateStaticAPIData ==
  /\ pc = "apiData"
  /\ apiData' = cache @@ apiData
  /\ pc' = "done"
  /\ exitCode' = 0
  /\ UNCHANGED <<auxVars, envVars, cache, hashFile, manifestFile, sitemap, robots, apiManifest,
                 apiSubjects, fileHashes, manifest, stats, allFiles, idx,
                 changedFiles, unchangedFiles, chunks, chunkStats, done, histVars>>

\* -------------------------------------------------------------------------
\* Specification
\* -------------------------------------------------------------------------
Next ==
  \/ \E f \in FileNames, s \in FileStates : EditFile(f, s)
  \/ RemoveDataDir
  \/ CreateDataDir
  \/ Start
  \/ GetExcelFiles
  \/ DetectChangedFiles
  \/ ProcessFilesInParallel
  \/ ProcessExcelFile
  \/ MergeResults
  \/ CopyUnchangedFiles
  \/ UpdateManifest
  \/ SaveManifest
  \/ SaveFileHashes
  \/ GenerateSEOFiles
  \/ GenerateStaticAPIManifest
  \/ GenerateStaticAPIData

Spec == Init /\ [][Next]_vars

\* -------------------------------------------------------------------------
\* The functions of the scripts, each called on its own argument
\* -------------------------------------------------------------------------
\* no run started and no source file: the pipeline at rest (the cache
\* directory is set apart)
AtRest ==
  /\ cpus = 1
  /\ dataDirExists = FALSE
  /\ src = NoFiles
  /\ hashFile = <<>>
  /\ sitemap = <<>>
  /\ robots = FALSE
  /\ apiManifest = <<>>
  /\ apiSubjects = <<>>
  /\ apiData = <<>>
  /\ pc = "idle"
  /\ exitCode = -1
  /\ fileHashes = <<>>
  /\ manifest = EmptyManifest
  /\ stats = ZeroStats
  /\ allFiles = <<>>
  /\ idx = 1
  /\ changedFiles = <<>>
  /\ unchangedFiles = <<>>
  /\ chunks = <<>>
  /\ chunkStats = <<>>
  /\ done = 0
  /\ runs = 0
  /\ edits = 0
  /\ lastSrc = NoFiles
  /\ lastDir = FALSE
  /\ startCache = <<>>
  /\ startFiles = <<<<>>, <<>>, <<>>, FALSE>>
  /\ prev = [completed |-> FALSE, src |-> NoFiles, manifest |-> <<>>]
  /\ written = {}
  /\ writtenArtifacts = {}
  /\ attempts = NoCounts
  /\ contrib = NoCounts

\* the sequences of one to n elements of S
SeqsUpTo(S, n) == UNION {[1..k -> S] : k \in 1..n}

\* The rows of a homepage spreadsheet: a title (metadata) or none, a section
\* name or none, and the two pipe-separated cells with none, one or two
\* segments each.
HomepageRows ==
  LET TitleCells == {<<>>, <<"H">>}
      SectionNameCells == {<<>>, <<"B">>}
      TutorialTitleCells == {<<>>, <<"T", "1">>, <<"T", "1", "|", "T", "2">>}
      TutorialUrlCells == {<<>>, <<"u", "1">>, <<"u", "1", "|", "u", "2">>}
  IN {[id |-> 0, title |-> h, url |-> <<>>, type |-> 0, section |-> <<>>,
       sectionName |-> n, tutorialTitles |-> t, tutorialUrls |-> u] :
        h \in TitleCells, n \in SectionNameCells,
        t \in TutorialTitleCells, u \in TutorialUrlCells}

\* the sheets of one to MaxRows of these rows, and the sheets of one row
\* that has an empty or blank segment in one of its pipe-separated cells
HomepageSheets ==
  LET GappedTitleCells == {<<"|", "T", "2">>, <<"T", "1", "|", " ", "|", "T", "3">>}
      GappedUrlCells == {<<"u", "1", "|", "u", "2">>,
                         <<"u", "1", "|", "u", "2", "|", "u", "3">>,
                         <<"u", "1", "|", "|", "u", "3">>}
  IN SeqsUpTo(HomepageRows, MaxRows)
     \cup {<<[id |-> 0, title |-> <<>>, url |-> <<>>, type |-> 0, section |-> <<>>,
              sectionName |-> <<"B">>, tutorialTitles |-> t, tutorialUrls |-> u]>> :
             t \in GappedTitleCells, u \in GappedUrlCells}

\* the subject of the homepage file the rows are read from ("a_home.xlsx")
HomepageSubject == subjectNameOf(NameHomeA)

\* processExcelFile from the transformation of a homepage's rows to its
\* validation: the document built, and whether validateHomepageData threw
TransformHomepage ==
  /\ arg.fn = "transformHomepageData"
  /\ ret = NoCall
  /\ LET data == transformHomepageData(arg.value, HomepageSubject, 1)
     IN ret' = [fn |-> "transformHomepageData", value |-> data,
                threw |-> ~validateHomepageData(data)]
  /\ UNCHANGED <<envVars, diskVars, procVars, histVars, readerVars, dataCache, deployVars, arg>>

\* The names whose subject is derived: a short stem and an ending that
\* getExcelFiles lets through, the file of the scenario, and the file V3
\* treats apart.
JetpackComposeXlsx ==
  <<"J", "e", "t", "p", "a", "c", "k", "_", "C", "o", "m", "p", "o", "s", "e">> \o DotXlsx
TutorialHome == <<"t", "u", "t", "o", "r", "i", "a", "l">> \o HomeMark
TutorialHomeXlsx == TutorialHome \o DotXlsx

SourceNames ==
  LET Stems == {<<>>} \cup SeqsUpTo({"A", "a", "b", "_", "-", " ", "."}, MaxStem)
      Endings == {DotXlsx, DotXls, HomeMark \o DotXlsx, HomeMark \o DotXls,
                  DotXlsx \o DotXlsx, HomeMark \o <<".", "b">> \o DotXlsx}
  IN {s \o e : s \in Stems, e \in Endings} \cup {JetpackComposeXlsx, TutorialHomeXlsx}

\* V3: the subject name of processExcelFile, 'tutorial_home.xlsx' apart
subjectNameOfV3(filename) ==
  IF filename = TutorialHomeXlsx THEN TutorialHome ELSE subjectNameOf(filename)

\* V3: outputFilename
outputFilenameV3(filename) ==
  IF filename = TutorialHomeXlsx THEN TutorialHome \o DotJson
  ELSE IF isHomepage(filename) THEN subjectNameOfV3(filename) \o HomeMark \o DotJson
  ELSE subjectNameOfV3(filename) \o DotJson

\* the first lines of processExcelFile: the subject name and the name of
\* the artifact, from the file name
DeriveSubjectName ==
  /\ arg.fn = "subjectName"
  /\ ret = NoCall
  /\ ret' = [fn |-> "subjectName", value |-> <<subjectNameOf(arg.value)>>,
             output |-> outputFilename(arg.value)]
  /\ UNCHANGED <<envVars, diskVars, procVars, histVars, readerVars, dataCache, deployVars, arg>>

DeriveSubjectNameV3 ==
  /\ arg.fn = "subjectNameV3"
  /\ ret = NoCall
  /\ ret' = [fn |-> "subjectNameV3", value |-> <<subjectNameOfV3(arg.value)>>,
             output |-> outputFilenameV3(arg.value)]
  /\ UNCHANGED <<envVars, diskVars, procVars, histVars, readerVars, dataCache, deployVars, arg>>

\* the derivation applied to the name it has given
DeriveAgain ==
  /\ ret.fn \in {"subjectName", "subjectNameV3"}
  /\ Len(ret.value) = 1
  /\ ret' = [ret EXCEPT !.value =
               Append(@, IF ret.fn = "subjectName" THEN subjectNameOf(ret.value[1])
                         ELSE subjectNameOfV3(ret.value[1]))]
  /\ UNCHANGED <<envVars, diskVars, procVars, histVars, readerVars, dataCache, deployVars, arg>>

\* V3: str.replace(/[-_]/g, ' ').replace(/\b\w/g, l => l.toUpperCase()).trim()
\* (the word characters of the model's strings are its letters and digits)
capitalizeWords(str) ==
  LET spaced == [i \in 1..Len(str) |-> IF str[i] \in {"-", "_"} THEN " " ELSE str[i]]
      IsWordChar(c) == c \notin {" ", ".", "/", "|", "-"}
      upper == [i \in 1..Len(spaced) |->
                  IF IsWordChar(spaced[i]) /\ (i = 1 \/ ~IsWordChar(spaced[i - 1]))
                  THEN UpperChar(spaced[i]) ELSE spaced[i]]
  IN Trim(upper)

\* V3: the object built for a row; type and section only when the subject
\* is not 'blogs'
ContentItemV3(row, index, now, subjectName) ==
  LET baseItem == [id |-> IF row.id # 0 THEN row.id ELSE index,
                   title |-> IF row.title # <<>> THEN row.title
                             ELSE UntitledPrefix \o NumStr(index),
                   url |-> IF row.url # <<>> THEN row.url ELSE PagePrefix \o NumStr(index),
                   lastModified |-> now]
  IN IF subjectName # Blogs
     THEN [type |-> IF row.type # 0 THEN row.type ELSE 1,
           section |-> IF row.section # <<>> THEN row.section ELSE General] @@ baseItem
     ELSE baseItem

\* V3: transformExcelDataOptimized
transformExcelDataOptimizedV3(excelData, subjectName, now) ==
  LET content == [i \in 1..Len(excelData) |->
                    ContentItemV3(excelData[i], i, now, subjectName)]
      sections == IF subjectName = Blogs THEN <<>>
                  ELSE Distinct([i \in 1..Len(content) |-> content[i].section])
      result == [type |-> "undefined",
                 id |-> subjectName,
                 name |-> capitalizeWords(subjectName),
                 base_url |-> IF subjectName = Blogs THEN <<"/">> \o Blogs
                              ELSE <<"/">> \o subjectName,
                 content |-> content,
                 totalPages |-> Len(content),
                 lastUpdated |-> now]
  IN IF subjectName # Blogs
     THEN [sections |-> sections, totalSections |-> Len(sections)] @@ result
     ELSE result

\* the rows of a subject's spreadsheet and the subject it is read for
SubjectSheets ==
  {[rows |-> rows, subjectName |-> s] :
     rows \in SeqsUpTo({RowFull, RowBare}, MaxRows), s \in {Blogs, <<"a">>}}

TransformSubject ==
  /\ arg.fn = "transformExcelDataOptimized"
  /\ ret = NoCall
  /\ ret' = [fn |-> "transformExcelDataOptimized",
             value |-> transformExcelDataOptimized(arg.value.rows, arg.value.subjectName, 1)]
  /\ UNCHANGED <<envVars, diskVars, procVars, histVars, readerVars, dataCache, deployVars, arg>>

TransformSubjectV3 ==
  /\ arg.fn = "transformExcelDataOptimizedV3"
  /\ ret = NoCall
  /\ ret' = [fn |-> "transformExcelDataOptimizedV3",
             value |-> transformExcelDataOptimizedV3(arg.value.rows, arg.value.subjectName, 1)]
  /\ UNCHANGED <<envVars, diskVars, procVars, histVars, readerVars, dataCache, deployVars, arg>>

\* the backquote of markdown code, written as the apostrophe here (a string
\* of this module cannot hold a backquote, and no content holds an apostrophe)
Backquote == "'"

\* The first replace of extractShortDescOptimized (heading marks, bold marks,
\* fenced code, inline code): the length of the match that starts at
\* position i of s, 0 when there is none. The alternatives are tried in
\* order; one to six '#' must be followed by white space, a fence runs to
\* the next fence, inline code to the next backquote.
MarkupAt(s, i) ==
  LET n == Len(s)
      At(j, c) == j <= n /\ s[j] = c
      hashes == CHOOSE h \in 0..(n - i + 1) :
                  /\ \A j \in i..(i + h - 1) : s[j] = "#"
                  /\ ~At(i + h, "#")
      blanks == CHOOSE w \in 0..n :
                  /\ \A j \in (i + hashes)..(i + hashes + w - 1) : At(j, " ")
                  /\ ~At(i + hashes + w, " ")
      Fence(j) == At(j, Backquote) /\ At(j + 1, Backquote) /\ At(j + 2, Backquote)
      closes == {j \in (i + 3)..n : Fence(j)}
      quotes == {j \in (i + 1)..n : s[j] = Backquote}
  IN IF hashes >= 1 /\ hashes <= 6 /\ blanks >= 1 THEN hashes + blanks
     ELSE IF At(i, "*") /\ At(i + 1, "*") THEN 2
     ELSE IF Fence(i) /\ closes # {}
       THEN (CHOOSE j \in closes : \A k \in closes : j <= k) + 3 - i
     ELSE IF At(i, Backquote) /\ quotes # {}
       THEN (CHOOSE j \in quotes : \A k \in quotes : j <= k) + 1 - i
     ELSE 0

\* s from position i on, with every match removed: the text up to the next
\* match is kept, and the search goes on behind the match
RECURSIVE StripMarkupFrom(_, _)
StripMarkupFrom(s, i) ==
  LET starts == {j \in i..Len(s) : MarkupAt(s, j) > 0}
      first == CHOOSE j \in starts : \A k \in starts : j <= k
  IN IF starts = {} THEN SubSeq(s, i, Len(s))
     ELSE SubSeq(s, i, first - 1) \o StripMarkupFrom(s, first + MarkupAt(s, first))

\* the second replace: every run of white space becomes one blank
RECURSIVE CollapseSpaces(_)
CollapseSpaces(s) ==
  LET runs2 == {j \in 1..(Len(s) - 1) : s[j] = " " /\ s[j + 1] = " "}
      first == CHOOSE j \in runs2 : \A k \in runs2 : j <= k
      after == {k \in (first + 1)..Len(s) : s[k] # " "}
  IN IF runs2 = {} THEN s
     ELSE IF after = {} THEN SubSeq(s, 1, first)
     ELSE SubSeq(s, 1, first)
          \o CollapseSpaces(SubSeq(s, CHOOSE k \in after : \A m \in after : k <= m, Len(s)))

\* the length from which the cleaned text is cut
ShortDescLimit == 155

extractShortDescOptimized(content) ==
  IF content = <<>> THEN <<>>
  ELSE LET cleaned == Trim(CollapseSpaces(StripMarkupFrom(content, 1)))
       IN IF Len(cleaned) > ShortDescLimit
          THEN SubSeq(cleaned, 1, ShortDescLimit) \o <<".", ".", ".">>
          ELSE cleaned

\* The cells of a content row: shortDesc absent or given, and a content of
\* some markup followed by a run of letters of any length up to MaxContent.
ContentRows ==
  LET Markup == {<<>>, <<"#", " ">>, <<"#", "#", " ", " ">>, <<"*", "*">>,
                 <<Backquote, "b", Backquote, " ">>,
                 <<Backquote, Backquote, Backquote, "b", " ", Backquote, Backquote, Backquote>>,
                 <<"a", " ", " ">>, <<"#">>, <<Backquote>>}
  IN {[shortDesc |-> sd, content |-> m \o [i \in 1..n |-> "a"]] :
        sd \in {<<>>, <<"b">>}, m \in {k \in Markup : Len(k) <= MaxContent},
        n \in 0..MaxContent}

\* shortDesc: row.shortDesc || this.extractShortDescOptimized(row.content)
DeriveShortDesc ==
  /\ arg.fn = "shortDesc"
  /\ ret = NoCall
  /\ ret' = [fn |-> "shortDesc",
             value |-> IF arg.value.shortDesc # <<>> THEN arg.value.shortDesc
                       ELSE extractShortDescOptimized(arg.value.content)]
  /\ UNCHANGED <<envVars, diskVars, procVars, histVars, readerVars, dataCache, deployVars, arg>>

FnInit ==
  /\ AtRest
  /\ dataCache = <<>>
  /\ cacheDirExists = FALSE
  /\ deploymentInfo = FALSE
  /\ preparer = NotPreparing
  /\ cache = <<>>
  /\ manifestFile = <<>>
  /\ cachedManifest = <<>>
  /\ cachedDataMap = <<>>
  /\ returned = NoCall
  /\ ret = NoCall
  /\ \/ \E rows \in HomepageSheets : arg = [fn |-> "transformHomepageData", value |-> rows]
     \/ \E name \in SourceNames : arg = [fn |-> "subjectName", value |-> name]
     \/ \E name \in SourceNames : arg = [fn |-> "subjectNameV3", value |-> name]
     \/ \E sheet \in SubjectSheets : arg = [fn |-> "transformExcelDataOptimized", value |-> sheet]
     \/ \E sheet \in SubjectSheets : arg = [fn |-> "transformExcelDataOptimizedV3", value |-> sheet]
     \/ \E row \in ContentRows : arg = [fn |-> "shortDesc", value |-> row]

FnNext ==
  \/ TransformHomepage
  \/ DeriveSubjectName
  \/ DeriveSubjectNameV3
  \/ DeriveAgain
  \/ TransformSubject
  \/ TransformSubjectV3
  \/ DeriveShortDesc

FnSpec == FnInit /\ [][FnNext]_vars

\* -------------------------------------------------------------------------
\* The static cache reader of the pages: loadManifest, loadSubjectData,
\* getTutorials, getTutorialBySubject, clearCache, getTutorialHomeData
\* -------------------------------------------------------------------------
\* the content of a file JSON.parse throws on
Unparsable == [type |-> "unparsable"]

\* the subjects the pages are asked for
ReaderIds == {<<"a">>, <<"c">>}

\* what a file of .next-cache holds when the pipeline has written it: a
\* Subject artifact of one page, or tutorial_home.json with an item per subject
WrittenFile(name) ==
  IF name = TutorialHome \o DotJson
  THEN [id |-> TutorialHome, content |-> <<[id |-> 1, url |-> <<"a">>], [id |-> 2, url |-> <<"c">>]>>]
  ELSE transformExcelDataOptimized(<<RowFull>>, Basename(name, DotJson), 1)

\* every content of the cache directory: each file absent, unparsable or written
ReaderCaches ==
  LET names == {id \o DotJson : id \in ReaderIds} \cup {TutorialHome \o DotJson}
  IN UNION {{[n \in present |-> IF n \in bad THEN Unparsable ELSE WrittenFile(n)] :
               bad \in SUBSET present} : present \in SUBSET names}

\* manifest.json: absent, unparsable, or listing both subjects
ReaderManifests ==
  {<<>>, <<Unparsable>>,
   <<[EmptyManifest EXCEPT
        !.subjects = <<subjectInfo(WrittenFile(<<"a">> \o DotJson)),
                       subjectInfo(WrittenFile(<<"c">> \o DotJson))>>,
        !.totalFiles = 2, !.totalPages = 2]>>}

\* loadManifest of the reader: the manifest it returns and the new
\* cachedManifest; a manifest that is missing or does not parse gives the
\* default object and is not kept
readerLoadManifest ==
  IF cachedManifest # <<>> THEN [value |-> cachedManifest[1], kept |-> cachedManifest]
  ELSE IF manifestFile # <<>> /\ manifestFile[1] # Unparsable
    THEN [value |-> manifestFile[1], kept |-> manifestFile]
  ELSE [value |-> [subjects |-> <<>>, totalFiles |-> 0, totalPages |-> 0], kept |-> <<>>]

\* a missing artifact read as a subject without pages
loadSubjectData_Placeholder(map, subjectId) ==
  IF subjectId \in DOMAIN map THEN [value |-> <<map[subjectId]>>, map |-> map]
  ELSE IF subjectId \o DotJson \in DOMAIN cache /\ cache[subjectId \o DotJson] # Unparsable
    THEN [value |-> <<cache[subjectId \o DotJson]>>,
          map |-> (subjectId :> cache[subjectId \o DotJson]) @@ map]
  ELSE [value |-> <<[id |-> subjectId, content |-> <<>>]>>, map |-> map]

\* loadSubjectData with cachedData = map: <<>> for null or <<data>>, and the
\* new cachedData; the catch of JSON.parse falls through to return null
loadSubjectData(map, subjectId) ==
  IF subjectId \in DOMAIN map THEN [value |-> <<map[subjectId]>>, map |-> map]
  ELSE IF subjectId \o DotJson \in DOMAIN cache /\ cache[subjectId \o DotJson] # Unparsable
    THEN [value |-> <<cache[subjectId \o DotJson]>>,
          map |-> (subjectId :> cache[subjectId \o DotJson]) @@ map]
  ELSE [value |-> <<>>, map |-> map]

\* the loop of getTutorials over manifest.subjects: the results pushed and
\* the new cachedData
RECURSIVE LoadSubjects(_, _)
LoadSubjects(subjects, map) ==
  IF subjects = <<>> THEN [results |-> <<>>, map |-> map]
  ELSE LET before == LoadSubjects(SubSeq(subjects, 1, Len(subjects) - 1), map)
           data == loadSubjectData(before.map, subjects[Len(subjects)].id)
       IN [results |-> before.results \o data.value, map |-> data.map]

\* what the reader saw when it was called
Seen ==
  [manifestFile |-> manifestFile, cache |-> cache,
   cachedManifest |-> cachedManifest, cachedDataMap |-> cachedDataMap]

GetTutorials ==
  /\ LET loaded == LoadSubjects(readerLoadManifest.value.subjects, cachedDataMap)
     IN /\ returned' = [fn |-> "getTutorials", arg |-> <<>>, value |-> loaded.results,
                        before |-> Seen]
        /\ cachedManifest' = readerLoadManifest.kept
        /\ cachedDataMap' = loaded.map
  /\ UNCHANGED <<envVars, diskVars, procVars, histVars, callVars, dataCache, deployVars>>

GetTutorialBySubject(subjectId) ==
  /\ returned' = [fn |-> "getTutorialBySubject", arg |-> subjectId,
                  value |-> loadSubjectData(cachedDataMap, subjectId).value, before |-> Seen]
  /\ cachedDataMap' = loadSubjectData(cachedDataMap, subjectId).map
  /\ UNCHANGED <<envVars, diskVars, procVars, histVars, callVars, dataCache, deployVars, cachedManifest>>

ClearCache ==
  /\ cachedManifest # <<>> \/ cachedDataMap # <<>>
  /\ cachedManifest' = <<>>
  /\ cachedDataMap' = <<>>
  /\ UNCHANGED <<envVars, diskVars, procVars, histVars, callVars, dataCache, deployVars, returned>>

\* createSlugVariations of the subject page ('-' is the one character
\* replaced)
createSlugVariations(subject) ==
  LET Swap(s, to) == [i \in 1..Len(s) |-> IF s[i] = "-" THEN to ELSE s[i]]
  IN <<subject, Swap(subject, "_"),
       SelectSeq(subject, LAMBDA c : c # "-"), Swap(subject, " ")>>

\* getTutorialHomeData: <<>> for null, else <<item>>; the file is read at
\* every call, and whatever is thrown is caught and gives null
getTutorialHomeData(subject) ==
  LET homeDataPath == TutorialHome \o DotJson
      Swap(s, from, to) == [i \in 1..Len(s) |-> IF s[i] = from THEN to ELSE s[i]]
      Matches(item, variation) ==
        \/ item.url = variation
        \/ item.url = subject
        \/ Swap(item.url, "_", "-") = subject
        \/ Swap(item.url, "-", "_") = Swap(subject, "-", "_")
      Found(items, variation) == {i \in 1..Len(items) : Matches(items[i], variation)}
      hits(items) == {v \in 1..4 : Found(items, createSlugVariations(subject)[v]) # {}}
  IN IF homeDataPath \notin DOMAIN cache THEN <<>>
     ELSE IF cache[homeDataPath] = Unparsable THEN <<>>
     ELSE IF "content" \notin DOMAIN cache[homeDataPath] THEN <<>>
     ELSE LET items == cache[homeDataPath].content
          IN IF hits(items) = {} THEN <<>>
             ELSE LET v == CHOOSE x \in hits(items) : \A y \in hits(items) : x <= y
                      found == Found(items, createSlugVariations(subject)[v])
                  IN <<items[CHOOSE i \in found : \A j \in found : i <= j]>>

GetTutorialHomeData(subject) ==
  /\ returned' = [fn |-> "getTutorialHomeData", arg |-> subject,
                  value |-> getTutorialHomeData(subject), before |-> Seen]
  /\ UNCHANGED <<envVars, diskVars, procVars, histVars, callVars, dataCache, deployVars, cachedManifest, cachedDataMap>>

\* the cache directory changes under the running reader: a file is
\* written anew, removed or damaged
CacheChanges ==
  /\ edits < MaxEdits
  /\ edits' = edits + 1
  /\ \/ /\ \E m \in ReaderManifests : m # manifestFile /\ manifestFile' = m
        /\ UNCHANGED cache
     \/ /\ \E c \in ReaderCaches :
             /\ \E n \in DOMAIN c \cup DOMAIN cache :
                  \A k \in (DOMAIN c \cup DOMAIN cache) \ {n} :
                    /\ k \in DOMAIN c <=> k \in DOMAIN cache
                    /\ k \in DOMAIN c => c[k] = cache[k]
             /\ c # cache
             /\ cache' = c
        /\ UNCHANGED manifestFile
  /\ UNCHANGED <<envVars, hashFile, sitemap, robots, apiManifest, apiSubjects, apiData,
                 procVars, runs, lastSrc, lastDir, startCache, startFiles, prev, written,
                 writtenArtifacts, attempts, contrib, auxVars>>

ReaderInit ==
  /\ AtRest
  /\ dataCache = <<>>
  /\ cacheDirExists = TRUE
  /\ deploymentInfo = FALSE
  /\ preparer = NotPreparing
  /\ cache \in ReaderCaches
  /\ manifestFile \in ReaderManifests
  /\ cachedManifest = <<>>
  /\ cachedDataMap = <<>>
  /\ returned = NoCall
  /\ arg = NoCall
  /\ ret = NoCall

ReaderNext ==
  \/ GetTutorials
  \/ \E subjectId \in ReaderIds : GetTutorialBySubject(subjectId)
  \/ \E subject \in ReaderIds : GetTutorialHomeData(subject)
  \/ ClearCache
  \/ CacheChanges

ReaderSpec == ReaderInit /\ [][ReaderNext]_vars

\* -------------------------------------------------------------------------
\* The V3 optimizer (the second version of the build script): the manifest
\* is filled while the files are processed. getExcelFiles, detectChangedFiles
\* and getFileHash are the same code as in the first version. The source
\* directory of the model has no tutorial_home.xlsx.
\* -------------------------------------------------------------------------
\* V3, the constructor: this.manifest = this.createNewManifest()
StartV3 ==
  /\ NotRunning
  /\ runs < MaxRuns
  /\ pc' = "list"
  /\ exitCode' = -1
  /\ fileHashes' = loadFileHashes
  /\ manifest' = EmptyManifest
  /\ stats' = ZeroStats
  /\ allFiles' = <<>>
  /\ idx' = 1
  /\ changedFiles' = <<>>
  /\ unchangedFiles' = <<>>
  /\ chunks' = <<>>
  /\ chunkStats' = <<>>
  /\ done' = 0
  /\ runs' = runs + 1
  /\ prev' = [completed |-> pc = "done", src |-> lastSrc, manifest |-> manifestFile]
  /\ lastSrc' = src
  /\ lastDir' = dataDirExists
  /\ startCache' = cache
  /\ startFiles' = <<hashFile, manifestFile, sitemap, robots>>
  /\ written' = {}
  /\ writtenArtifacts' = {}
  /\ attempts' = NoCounts
  /\ contrib' = NoCounts
  /\ cacheDirExists' = TRUE
  /\ UNCHANGED <<callVars, readerVars, dataCache, deploymentInfo, preparer,
                 envVars, diskVars, edits>>

\* V3: the totals updateManifestFinal and saveManifest put in this.manifest
finalManifest(m, st, now) ==
  [m EXCEPT !.totalFiles = st.filesProcessed,
            !.totalPages = st.totalPages,
            !.lastUpdated = now,
            !.buildStats = [filesProcessed |-> st.filesProcessed,
                            filesSkipped |-> st.filesSkipped]]

\* V3, optimize() up to the listing: without any spreadsheet the manifest
\* is saved and optimize returns
GetExcelFilesV3 ==
  /\ pc = "list"
  /\ IF DataDirMissing
     THEN /\ Abort
          /\ UNCHANGED <<allFiles, manifest, manifestFile, written>>
     ELSE IF getExcelFiles = <<>>
     THEN /\ allFiles' = <<>>
          /\ manifest' = finalManifest(manifest, stats, runs)
          /\ manifestFile' = <<manifest'>>
          /\ written' = written \cup {"manifest.json"}
          /\ pc' = "done"
          /\ exitCode' = 0
     ELSE /\ allFiles' = getExcelFiles
          /\ pc' = "detect"
          /\ UNCHANGED <<exitCode, manifest, manifestFile, written>>
  /\ UNCHANGED <<auxVars, envVars, cache, hashFile, sitemap, robots, apiManifest, apiSubjects,
                 apiData, fileHashes, stats, idx, changedFiles, unchangedFiles, chunks,
                 chunkStats, done, runs, edits, lastSrc, lastDir, startCache, startFiles,
                 prev, writtenArtifacts, attempts, contrib>>

\* V3: what processExcelFile writes for a file it does not throw on
transformedDataV3(filename, file, now) ==
  LET subjectName == subjectNameOfV3(filename)
      displayName == capitalizeWords(subjectName)
  IN IF isHomepage(filename)
     THEN [id |-> subjectName, name |-> displayName,
           title |-> displayName \o TutorialSuffix,
           sections |-> <<>>, totalSections |-> 0, totalTutorials |-> 0,
           lastUpdated |-> now]
     ELSE transformExcelDataOptimizedV3(file.rows, subjectName, now)

\* V3: addToManifestImmediate for a file other than tutorial_home.xlsx: the
\* new this.manifest and this.stats
addToManifestImmediate(m, st, data, isHome) ==
  IF isHome
  THEN [manifest |->
          [m EXCEPT !.homepages =
             Append(@, [id |-> data.id, subjectId |-> data.id, title |-> data.title,
                        totalSections |-> data.totalSections,
                        totalTutorials |-> data.totalTutorials,
                        lastModified |-> data.lastUpdated])],
        stats |-> st]
  ELSE LET pageCount == IF "content" \in DOMAIN data THEN Len(data.content) ELSE 0
       IN [manifest |->
             [m EXCEPT !.subjects =
                Append(@, [id |-> data.id, name |-> data.name, base_url |-> data.base_url,
                           totalPages |-> pageCount,
                           totalSections |-> IF "totalSections" \in DOMAIN data
                                                  /\ data.totalSections # 0
                                             THEN data.totalSections ELSE 1,
                           sections |-> IF "sections" \in DOMAIN data THEN data.sections
                                        ELSE <<General>>,
                           lastModified |-> data.lastUpdated])],
           stats |-> [st EXCEPT !.totalPages = @ + pageCount]]

\* V3: one iteration of the loop of processFilesInParallel, which takes the
\* changed files one after the other
ProcessExcelFileV3 ==
  /\ pc = "detect"
  /\ idx > Len(allFiles)
  /\ done < Len(changedFiles)
  /\ LET filename == changedFiles[done + 1]
         file == src[filename]
     IN /\ IF file.kind # "sheet" \/ file.rows = <<>>
           THEN /\ stats' = [stats EXCEPT !.errors = @ + 1]
                /\ UNCHANGED <<cache, manifest, writtenArtifacts, contrib>>
           ELSE LET data == transformedDataV3(filename, file, runs)
                    added == addToManifestImmediate(manifest, stats, data, isHomepage(filename))
                IN /\ cache' = (outputFilenameV3(filename) :> data) @@ cache
                   /\ writtenArtifacts' = writtenArtifacts \cup {outputFilenameV3(filename)}
                   /\ manifest' = added.manifest
                   /\ stats' = [added.stats EXCEPT !.filesProcessed = @ + 1]
                   /\ contrib' = [contrib EXCEPT
                                    ![filename] = @ + added.stats.totalPages - stats.totalPages]
        /\ attempts' = [attempts EXCEPT ![filename] = @ + 1]
  /\ done' = done + 1
  /\ UNCHANGED <<auxVars, envVars, hashFile, manifestFile, sitemap, robots, apiManifest,
                 apiSubjects, apiData, pc, exitCode, fileHashes, allFiles, idx, changedFiles,
                 unchangedFiles, chunks, chunkStats,
                 runs, edits, lastSrc, lastDir, startCache, startFiles, prev, written>>

\* V3: addUnchangedFilesToManifest, the loop over the unchanged files
AddUnchangedFilesToManifest ==
  /\ pc = "detect"
  /\ idx > Len(allFiles)
  /\ done = Len(changedFiles)
  /\ LET RECURSIVE After(_)
         After(n) ==
           IF n = 0 THEN [manifest |-> manifest, stats |-> stats, contrib |-> contrib]
           ELSE LET before == After(n - 1)
                    filename == unchangedFiles[n]
                    cachedFilename == outputFilenameV3(filename)
                IN IF cachedFilename \notin DOMAIN cache THEN before
                   ELSE LET cachedData == cache[cachedFilename]
                            added == addToManifestImmediate(before.manifest, before.stats,
                                                            cachedData, isHomepage(filename))
                            more == IF ~isHomepage(filename) /\ "content" \in DOMAIN cachedData
                                    THEN Len(cachedData.content) ELSE 0
                        IN [manifest |-> added.manifest,
                            stats |-> [added.stats EXCEPT !.totalPages = @ + more],
                            contrib |-> [before.contrib EXCEPT ![filename] =
                                           @ + added.stats.totalPages + more
                                             - before.stats.totalPages]]
         all == After(Len(unchangedFiles))
     IN /\ manifest' = all.manifest
        /\ stats' = all.stats
        /\ contrib' = all.contrib
  /\ pc' = "manifest"
  /\ UNCHANGED <<auxVars, envVars, diskVars, exitCode, fileHashes, allFiles, idx,
                 changedFiles, unchangedFiles, chunks, chunkStats, done,
                 runs, edits, lastSrc, lastDir, startCache, startFiles, prev, written,
                 writtenArtifacts, attempts>>

UpdateManifestFinal ==
  /\ pc = "manifest"
  /\ manifest' = finalManifest(manifest, stats, runs)
  /\ pc' = "saveManifest"
  /\ UNCHANGED <<auxVars, envVars, diskVars, histVars, exitCode, fileHashes, stats, allFiles,
                 idx, changedFiles, unchangedFiles, chunks, chunkStats, done>>

\* V3: saveManifest sets the totals once more and writes manifest.json
SaveManifestV3 ==
  /\ pc = "saveManifest"
  /\ manifest' = finalManifest(manifest, stats, runs)
  /\ manifestFile' = <<manifest'>>
  /\ written' = written \cup {"manifest.json"}
  /\ pc' = "saveHashes"
  /\ UNCHANGED <<auxVars, envVars, cache, hashFile, sitemap, robots, apiManifest, apiSubjects,
                 apiData, exitCode, fileHashes, stats, allFiles, idx,
                 changedFiles, unchangedFiles, chunks, chunkStats, done,
                 runs, edits, lastSrc, lastDir, startCache, startFiles, prev, writtenArtifacts,
                 attempts, contrib>>

\* V3: saveFileHashes, followed by generateStaticAPI
SaveFileHashesV3 ==
  /\ pc = "saveHashes"
  /\ hashFile' = <<fileHashes>>
  /\ written' = written \cup {"file-hashes.json"}
  /\ pc' = "api"
  /\ UNCHANGED <<auxVars, envVars, cache, manifestFile, sitemap, robots, apiManifest,
                 apiSubjects, apiData, exitCode, fileHashes, manifest, stats, allFiles, idx,
                 changedFiles, unchangedFiles, chunks, chunkStats, done,
                 runs, edits, lastSrc, lastDir, startCache, startFiles, prev, writtenArtifacts,
                 attempts, contrib>>

\* V3: generateStaticAPI copies manifest.json to public/api and every .json
\* of the cache but file-hashes.json (manifest.json too) to public/api/data;
\* then showOptimizedStats, and the process ends with exit code 0
GenerateStaticAPIV3 ==
  /\ pc = "api"
  /\ apiManifest' = IF manifestFile # <<>> THEN manifestFile ELSE apiManifest
  /\ apiData' = (IF manifestFile # <<>>
                 THEN (<<"m", "a", "n", "i", "f", "e", "s", "t">> \o DotJson) :> manifestFile[1]
                 ELSE <<>>) @@ cache @@ apiData
  /\ written' = written \cup {"api/manifest.json"}
  /\ pc' = "done"
  /\ exitCode' = 0
  /\ UNCHANGED <<auxVars, envVars, cache, hashFile, manifestFile, sitemap, robots,
                 apiSubjects, fileHashes, manifest, stats, allFiles, idx,
                 changedFiles, unchangedFiles, chunks, chunkStats, done,
                 runs, edits, lastSrc, lastDir, startCache, startFiles, prev, writtenArtifacts,
                 attempts, contrib>>

V3Next ==
  \/ \E f \in FileNames, s \in FileStates : EditFile(f, s)
  \/ RemoveDataDir
  \/ CreateDataDir
  \/ StartV3
  \/ GetExcelFilesV3
  \/ DetectChangedFiles
  \/ ProcessExcelFileV3
  \/ AddUnchangedFilesToManifest
  \/ UpdateManifestFinal
  \/ SaveManifestV3
  \/ SaveFileHashesV3
  \/ GenerateStaticAPIV3

V3Spec == Init /\ [][V3Next]_vars

\* -------------------------------------------------------------------------
\* lib/data/excelReader.js: the pages read the spreadsheets themselves,
\* through readExcelFile and its module-level dataCache
\* -------------------------------------------------------------------------
transformExcelToFirestoreFormat(excelData, filename) ==
  LET subjectId == ToLowerCase(Basename(filename, DotXlsx))
      isBlog == subjectId = Blogs \/ subjectId = SubSeq(Blogs, 1, Len(Blogs) - 1)
  IN [id |-> subjectId,
      name |-> capitalizeFirstLetter(subjectId),
      base_url |-> IF isBlog THEN <<"/">> \o Blogs ELSE <<"/">> \o subjectId,
      content |-> [i \in 1..Len(excelData) |->
                     [id |-> excelData[i].id, title |-> excelData[i].title,
                      url |-> excelData[i].url,
                      type |-> IF excelData[i].type # 0 THEN excelData[i].type ELSE 1]]]

\* the file read at every call, dataCache never looked at
readExcelFile_NoMemo(map, filename) ==
  IF src[filename].kind # "sheet" \/ src[filename].rows = <<>>
  THEN [value |-> <<>>, map |-> map, readDisk |-> TRUE]
  ELSE LET firestoreData == transformExcelToFirestoreFormat(src[filename].rows, filename)
       IN [value |-> <<firestoreData>>, map |-> (filename :> firestoreData) @@ map,
           readDisk |-> TRUE]

\* readExcelFile with dataCache = map: what it returns (<<>> for null, else
\* <<data>>), the new dataCache, and whether the disk was looked at. A file
\* that is missing, that cannot be read or parsed (the catch) or that has
\* no row gives null and leaves dataCache as it is.
readExcelFile(map, filename) ==
  IF filename \in DOMAIN map
  THEN [value |-> <<map[filename]>>, map |-> map, readDisk |-> FALSE]
  ELSE IF src[filename].kind # "sheet" \/ src[filename].rows = <<>>
  THEN [value |-> <<>>, map |-> map, readDisk |-> TRUE]
  ELSE LET firestoreData == transformExcelToFirestoreFormat(src[filename].rows, filename)
       IN [value |-> <<firestoreData>>, map |-> (filename :> firestoreData) @@ map,
           readDisk |-> TRUE]

\* a call of readExcelFile (by getTutorials, getTutorialBySubject or
\* preloadAllData)
ReadExcelFile(filename) ==
  /\ returned' = [fn |-> "readExcelFile", arg |-> filename,
                  value |-> readExcelFile(dataCache, filename).value,
                  readDisk |-> readExcelFile(dataCache, filename).readDisk,
                  before |-> [src |-> src, dataCache |-> dataCache],
                  after |-> readExcelFile(dataCache, filename).map]
  /\ dataCache' = readExcelFile(dataCache, filename).map
  /\ UNCHANGED <<envVars, diskVars, procVars, histVars, callVars, cachedManifest,
                 cachedDataMap, deployVars>>

\* clearCache of excelReader.js: dataCache.clear()
ClearDataCache ==
  /\ dataCache # <<>>
  /\ dataCache' = <<>>
  /\ returned' = [fn |-> "clearCache", arg |-> <<>>, value |-> <<>>, readDisk |-> FALSE,
                  before |-> [src |-> src, dataCache |-> dataCache], after |-> <<>>]
  /\ UNCHANGED <<envVars, diskVars, procVars, histVars, callVars, cachedManifest,
                 cachedDataMap, deployVars>>

\* no pipeline run; the spreadsheets are edited under the running reader
ExcelInit == Init /\ cpus = 1

ExcelNext ==
  \/ \E f \in FileNames, s \in FileStates : EditFile(f, s)
  \/ \E filename \in FileNames : ReadExcelFile(filename)
  \/ ClearDataCache

ExcelSpec == ExcelInit /\ [][ExcelNext]_vars

\* -------------------------------------------------------------------------
\* scripts/deploy-prepare.js: DeploymentPreparer.prepare, a process of its
\* own that runs four steps in a try block; the catch ends the process with
\* process.exit(1)
\* -------------------------------------------------------------------------
ManifestJson == <<"m", "a", "n", "i", "f", "e", "s", "t">> \o DotJson

\* a step that has run adds its name to preparer.steps
PreparerSteps ==
  <<"verifyCacheExists", "createPublicAPIRoutes", "generateDeploymentInfo",
    "validateDeployment">>

\* the step went through (next step at) or threw (the catch of prepare)
StepEnds(step, ok, at) ==
  preparer' = IF ok
              THEN [pc |-> at, exitCode |-> IF at = "done" THEN 0 ELSE -1,
                    steps |-> Append(preparer.steps, step)]
              ELSE [pc |-> "failed", exitCode |-> 1,
                    steps |-> Append(preparer.steps, step)]

\* the .json files of .next-cache other than file-hashes.json:
\* manifest.json is one of them
jsonFiles == DOMAIN cache \cup (IF manifestFile # <<>> THEN {ManifestJson} ELSE {})

VerifyCacheExists ==
  /\ preparer.pc = "idle"
  /\ StepEnds("verifyCacheExists", cacheDirExists /\ jsonFiles # {}, "routes")
  /\ UNCHANGED <<envVars, diskVars, procVars, histVars, callVars, readerVars, dataCache,
                 cacheDirExists, deploymentInfo>>

\* manifest.json is copied if there is one, then every artifact
CreatePublicAPIRoutes ==
  /\ preparer.pc = "routes"
  /\ apiManifest' = IF manifestFile # <<>> THEN manifestFile ELSE apiManifest
  /\ apiData' = cache @@ apiData
  /\ StepEnds("createPublicAPIRoutes", TRUE, "info")
  /\ UNCHANGED <<envVars, cache, hashFile, manifestFile, sitemap, robots, apiSubjects,
                 procVars, histVars, callVars, readerVars, dataCache, cacheDirExists,
                 deploymentInfo>>

GenerateDeploymentInfo ==
  /\ preparer.pc = "info"
  /\ deploymentInfo' = TRUE
  /\ StepEnds("generateDeploymentInfo", TRUE, "validate")
  /\ UNCHANGED <<envVars, diskVars, procVars, histVars, callVars, readerVars, dataCache,
                 cacheDirExists>>

\* the four required files exist and public/api/data is not empty
ValidateDeployment ==
  /\ preparer.pc = "validate"
  /\ StepEnds("validateDeployment",
              /\ sitemap # <<>>
              /\ robots
              /\ apiManifest # <<>>
              /\ deploymentInfo
              /\ DOMAIN apiData # {},
              "done")
  /\ UNCHANGED <<envVars, diskVars, procVars, histVars, callVars, readerVars, dataCache,
                 cacheDirExists, deploymentInfo>>

\* The project directory as prepare() finds it, after any number of runs
\* of the two build scripts and of prepare() itself. No script removes a
\* file, so what public/api holds the cache holds too; the second
\* version's generateStaticAPI copies manifest.json to public/api/data as
\* well; public/sitemap.xml and public/robots.txt are there or not.
DeployInit ==
  /\ cpus = 1
  /\ dataDirExists = FALSE
  /\ src = NoFiles
  /\ cacheDirExists \in BOOLEAN
  /\ cache \in {<<>>, (<<"a">> \o DotJson) :> WrittenFile(<<"a">> \o DotJson)}
  /\ manifestFile \in {<<>>, <<EmptyManifest>>}
  /\ hashFile = <<>>
  /\ ~cacheDirExists => cache = <<>> /\ manifestFile = <<>>
  /\ sitemap \in {<<>>, <<(<<>>)>>}
  /\ robots \in BOOLEAN
  /\ apiManifest \in {<<>>, manifestFile}
  /\ apiSubjects = <<>>
  /\ \E withManifest \in BOOLEAN, withData \in BOOLEAN :
        /\ withManifest => manifestFile # <<>>
        /\ apiData = (IF withManifest THEN ManifestJson :> manifestFile[1] ELSE <<>>)
                       @@ (IF withData THEN cache ELSE <<>>)
  /\ deploymentInfo \in BOOLEAN
  /\ preparer = NotPreparing
  /\ pc = "idle"
  /\ exitCode = -1
  /\ fileHashes = <<>>
  /\ manifest = EmptyManifest
  /\ stats = ZeroStats
  /\ allFiles = <<>>
  /\ idx = 1
  /\ changedFiles = <<>>
  /\ unchangedFiles = <<>>
  /\ chunks = <<>>
  /\ chunkStats = <<>>
  /\ done = 0
  /\ runs = 0
  /\ edits = 0
  /\ lastSrc = NoFiles
  /\ lastDir = FALSE
  /\ startCache = <<>>
  /\ startFiles = <<<<>>, <<>>, <<>>, FALSE>>
  /\ prev = [completed |-> FALSE, src |-> NoFiles, manifest |-> <<>>]
  /\ written = {}
  /\ writtenArtifacts = {}
  /\ attempts = NoCounts
  /\ contrib = NoCounts
  /\ arg = NoCall
  /\ ret = NoCall
  /\ cachedManifest = <<>>
  /\ cachedDataMap = <<>>
  /\ returned = NoCall
  /\ dataCache = <<>>

DeployNext ==
  \/ VerifyCacheExists
  \/ CreatePublicAPIRoutes
  \/ GenerateDeploymentInfo
  \/ ValidateDeployment

DeploySpec == DeployInit /\ [][DeployNext]_vars

\* -------------------------------------------------------------------------
\* Vocabulary of the properties
\* -------------------------------------------------------------------------
InList(seq, x) == \E i \in 1..Len(seq) : seq[i] = x

\* detectChangedFiles of the current run has classified f
Hashed(f) == \E i \in 1..(idx - 1) : i <= Len(allFiles) /\ allFiles[i] = f

AfterUpdateManifest == {"saveManifest", "saveHashes", "seo", "api", "apiData", "done"}
AfterCopy == {"manifest"} \cup AfterUpdateManifest
AfterSaveManifest == {"saveHashes", "seo", "api", "apiData", "done"}

\* the failures of processExcelFile, stated on the source file: bytes that are
\* no spreadsheet, a sheet without rows, a homepage that fails validation
FailsToProcess(f, file) ==
  \/ file.kind = "corrupt"
  \/ file.kind = "sheet" /\ file.rows = <<>>
  \/ /\ file.kind = "sheet"
     /\ file.rows # <<>>
     /\ isHomepage(f)
     /\ ~validateHomepageData(transformHomepageData(file.rows, subjectNameOf(f), 0))

\* the id of the artifact of source file f
ArtifactId(f) ==
  IF isHomepage(f) THEN subjectNameOf(f) \o HomeMark ELSE subjectNameOf(f)

RECURSIVE SubjectPages(_, _)
SubjectPages(files, names) ==
  IF names = {} THEN 0
  ELSE LET n == CHOOSE x \in names : TRUE
       IN (IF files[n].type = "homepage" THEN 0 ELSE Len(files[n].content))
          + SubjectPages(files, names \ {n})

\* -------------------------------------------------------------------------
\* C1: a file whose bytes are the same as at the start of the previous,
\* completed run is classified unchanged (and not changed) by
\* detectChangedFiles of the next run.
\* -------------------------------------------------------------------------
SameBytesAsLastRun(f) ==
  /\ prev.completed
  /\ lastSrc[f] \in Bytes
  /\ prev.src[f] = lastSrc[f]
  /\ Hashed(f)

C1_UnchangedBytesClassifiedUnchanged ==
  \A f \in FileNames :
    SameBytesAsLastRun(f) => InList(unchangedFiles, f) /\ ~InList(changedFiles, f)

C1_Witness ==
  \E f \in FileNames : SameBytesAsLastRun(f) /\ InList(unchangedFiles, f) /\ pc = "done"

\* -------------------------------------------------------------------------
\* C2: no artifact is written once the run has written manifest.json, and
\* at every moment every subject and homepage of the manifest.json on disk
\* has its <id>.json in the cache directory.
\* -------------------------------------------------------------------------
ManifestRefsPresent ==
  manifestFile # <<>> =>
    /\ \A i \in 1..Len(manifestFile[1].subjects) :
         (manifestFile[1].subjects[i].id \o DotJson) \in DOMAIN cache
    /\ \A i \in 1..Len(manifestFile[1].homepages) :
         (manifestFile[1].homepages[i].id \o DotJson) \in DOMAIN cache

C2_ManifestAfterArtifacts ==
  /\ []ManifestRefsPresent
  /\ [][cache' # cache => manifestFile = startFiles[2]]_vars

C2_Witness ==
  /\ pc = "done"
  /\ stats.errors > 0
  /\ Len(manifestFile[1].subjects) > 0
  /\ Len(manifestFile[1].homepages) > 0

\* -------------------------------------------------------------------------
\* C3: after updateManifest, manifest.totalPages is the sum of
\* content.length over the Subject artifacts of the cache directory;
\* homepage artifacts add nothing.
\* -------------------------------------------------------------------------
C3_TotalPagesIsSubjectSum ==
  /\ pc \in AfterUpdateManifest =>
       manifest.totalPages = SubjectPages(cache, DOMAIN cache)
  /\ pc \in AfterSaveManifest =>
       manifestFile[1].totalPages = SubjectPages(cache, DOMAIN cache)

C3_Witness ==
  /\ pc = "done"
  /\ stats.errors > 0
  /\ stats.filesSkipped > 0
  /\ manifest.totalPages > 0
  /\ \E n \in DOMAIN cache : cache[n].type = "homepage" /\ Len(cache[n].sections) > 0

\* -------------------------------------------------------------------------
\* C4: a completed run that follows a completed run with the same source
\* directory writes a manifest with the same subjects, homepages and
\* totalPages, calls processExcelFile for no file and leaves the artifacts
\* as they were.
\* -------------------------------------------------------------------------
SecondRunNoChange == pc = "done" /\ prev.completed /\ prev.src = lastSrc

C4_RerunIsIdempotent ==
  SecondRunNoChange =>
    /\ manifestFile[1].subjects = prev.manifest[1].subjects
    /\ manifestFile[1].homepages = prev.manifest[1].homepages
    /\ manifestFile[1].totalPages = prev.manifest[1].totalPages
    /\ \A f \in FileNames : attempts[f] = 0
    /\ cache = startCache

C4_Witness ==
  /\ SecondRunNoChange
  /\ Len(manifestFile[1].subjects) > 0
  /\ Len(manifestFile[1].homepages) > 0

\* -------------------------------------------------------------------------
\* C5: a call of processExcelFile that fails (unparsable spreadsheet, zero
\* rows, homepage validation failure) writes, truncates and deletes nothing
\* in the cache directory.
\* -------------------------------------------------------------------------
C5_FailedFileLeavesArtifact ==
  [][\A f \in FileNames :
       (attempts'[f] = attempts[f] + 1 /\ FailsToProcess(f, src[f])) => cache' = cache]_vars

C5_Witness ==
  \E f \in FileNames :
    /\ attempts[f] = 1
    /\ FailsToProcess(f, lastSrc[f])
    /\ isHomepage(f)
    /\ lastSrc[f].rows # <<>>
    /\ outputFilename(f) \in DOMAIN startCache
    /\ outputFilename(f) \in DOMAIN cache
    /\ cache[outputFilename(f)] = startCache[outputFilename(f)]

\* -------------------------------------------------------------------------
\* C6: a changed file with zero rows is an error of that file only: the
\* run is not aborted, every changed file is passed to processExcelFile
\* once, the error counter ends at the number of failed files, and the run
\* writes manifest and ledger and ends with exit code 0.
\* -------------------------------------------------------------------------
ChangedSet == {f \in FileNames : InList(changedFiles, f)}
FailedChanged == {f \in ChangedSet : FailsToProcess(f, lastSrc[f])}
\* processExcelFile has been called for a changed file that has no rows
ZeroRowsRaised == \E f \in ChangedSet : lastSrc[f] = Sheet(<<>>) /\ attempts[f] > 0

\* the run can take its next step: a processExcelFile call is pending, or
\* one of the later steps of optimize() is enabled
CanGoOn ==
  \/ pc = "process" /\ done < Len(CallOrder(chunks))
  \/ ENABLED MergeResults
  \/ ENABLED CopyUnchangedFiles
  \/ ENABLED UpdateManifest
  \/ ENABLED SaveManifest
  \/ ENABLED SaveFileHashes
  \/ ENABLED GenerateSEOFiles
  \/ ENABLED GenerateStaticAPIManifest
  \/ ENABLED GenerateStaticAPIData

C6_ZeroRowsFailsOneFile ==
  ZeroRowsRaised =>
    /\ pc # "failed"
    /\ pc # "done" => CanGoOn
    /\ pc \in AfterCopy \cup {"copy"} =>
         /\ stats.errors = Cardinality(FailedChanged)
         /\ stats.filesProcessed = Cardinality(ChangedSet \ FailedChanged)
         /\ \A g \in ChangedSet : attempts[g] = 1
    /\ pc = "done" =>
         /\ exitCode = 0
         /\ manifestFile = <<manifest>>
         /\ manifestFile # startFiles[2]
         /\ hashFile = <<fileHashes>>

C6_Witness ==
  /\ pc = "done"
  /\ Len(chunks) = 2
  /\ Len(chunks[1]) = 2
  /\ lastSrc[chunks[1][1]] = Sheet(<<>>)
  /\ stats.errors = 1
  /\ stats.filesProcessed = 2

\* -------------------------------------------------------------------------
\* C7: when a source file cannot be read while it is hashed, the run is
\* not aborted: the other files are still hashed and the run goes on.
\* -------------------------------------------------------------------------
UnreadableListed ==
  \E i \in 1..Len(allFiles) : lastSrc[allFiles[i]].kind = "unreadable"

C7_UnreadableFileNotFatal ==
  UnreadableListed =>
    /\ pc # "failed"
    /\ exitCode # 1
    /\ pc \in AfterCopy => \A i \in 1..Len(allFiles) : Hashed(allFiles[i])

\* -------------------------------------------------------------------------
\* C8: a run started without the source directory ends with exit code 1
\* before any file is hashed or processed, and leaves manifest.json,
\* file-hashes.json, every artifact, sitemap.xml and robots.txt as they were.
\* -------------------------------------------------------------------------
RanWithoutDataDir == ~lastDir /\ pc \notin {"idle", "list"}

C8_MissingDataDirAborts ==
  RanWithoutDataDir =>
    /\ pc = "failed"
    /\ exitCode = 1
    /\ idx = 1
    /\ changedFiles = <<>>
    /\ unchangedFiles = <<>>
    /\ \A f \in FileNames : attempts[f] = 0
    /\ cache = startCache
    /\ <<hashFile, manifestFile, sitemap, robots>> = startFiles

C8_Witness == RanWithoutDataDir /\ manifestFile # <<>> /\ cache # <<>>

\* -------------------------------------------------------------------------
\* C9: an unchanged file whose artifact is missing (absent when the run
\* started and produced by no other file of the run) is not parsed, gets no
\* artifact, adds nothing to stats.totalPages, has no entry in the
\* manifest, and the run ends with exit code 0.
\* -------------------------------------------------------------------------
MissingUnchanged(f) ==
  /\ pc \in AfterCopy
  /\ InList(unchangedFiles, f)
  /\ outputFilename(f) \notin DOMAIN startCache
  /\ \A g \in ChangedSet :
       outputFilename(g) = outputFilename(f) => FailsToProcess(g, lastSrc[g])

C9_MissingArtifactOmitted ==
  \A f \in FileNames :
    MissingUnchanged(f) =>
      /\ attempts[f] = 0
      /\ outputFilename(f) \notin DOMAIN cache
      /\ contrib[f] = 0
      /\ pc \in AfterUpdateManifest =>
           /\ \A i \in 1..Len(manifest.subjects) : manifest.subjects[i].id # ArtifactId(f)
           /\ \A i \in 1..Len(manifest.homepages) : manifest.homepages[i].id # ArtifactId(f)
      /\ pc = "done" => exitCode = 0

C9_Witness ==
  \E f \in FileNames :
    /\ MissingUnchanged(f)
    /\ pc = "done"
    /\ lastSrc[f] = Sheet(<<>>)
    /\ stats.totalPages > 0

\* -------------------------------------------------------------------------
\* C10: every Subject artifact has totalPages = content.length, and the
\* artifact a run writes has one content item per row of its source file,
\* item i made from row i.
\* -------------------------------------------------------------------------
ItemFromRow(item, row, i) ==
  /\ item.title = (IF row.title # <<>> THEN row.title ELSE UntitledPrefix \o NumStr(i))
  /\ item.url = (IF row.url # <<>> THEN row.url ELSE PagePrefix \o NumStr(i))
  /\ item.section = (IF row.section # <<>> THEN row.section ELSE General)
  /\ item.id = i

ContentFromRows(content, rows) ==
  /\ Len(content) = Len(rows)
  /\ \A i \in 1..Len(rows) : ItemFromRow(content[i], rows[i], i)

C10_ContentFollowsRows ==
  \A n \in DOMAIN cache :
    cache[n].type # "homepage" =>
      /\ cache[n].totalPages = Len(cache[n].content)
      /\ n \in writtenArtifacts =>
           \E f \in FileNames :
             /\ outputFilename(f) = n
             /\ attempts[f] = 1
             /\ lastSrc[f].kind = "sheet"
             /\ ContentFromRows(cache[n].content, lastSrc[f].rows)

C10_Witness ==
  \E n \in writtenArtifacts :
    /\ cache[n].type # "homepage"
    /\ Len(cache[n].content) = 2
    /\ cache[n].content[1].title # cache[n].content[2].title

\* -------------------------------------------------------------------------
\* C11
\* -------------------------------------------------------------------------
\* row.sectionName?.trim() || 'General'
sectionNameOf(row) ==
  IF Trim(row.sectionName) # <<>> THEN Trim(row.sectionName) ELSE General

\* the tutorials of the rows of one section name, in row order
RECURSIVE TutorialsOfName(_, _)
TutorialsOfName(rows, name) ==
  IF rows = <<>> THEN <<>>
  ELSE (IF sectionNameOf(Head(rows)) = name THEN RowTutorials(Head(rows)) ELSE <<>>)
       \o TutorialsOfName(Tail(rows), name)

SectionsNamed(sections, name) == {k \in 1..Len(sections) : sections[k].name = name}

\* C11: when several homepage rows carry the same sectionName, the document
\* built by transformHomepageData has exactly one section of that name,
\* whose tutorials are the rows' tutorials concatenated in row order; no
\* two sections of the output have the same name.
C11_SameNameRowsMerged ==
  ret.fn = "transformHomepageData" =>
    \A i \in 1..Len(arg.value) :
      LET name == sectionNameOf(arg.value[i])
          merged == TutorialsOfName(arg.value, name)
      IN merged # <<>> =>
           /\ Cardinality(SectionsNamed(ret.value.sections, name)) = 1
           /\ \A k \in SectionsNamed(ret.value.sections, name) :
                ret.value.sections[k].tutorials = merged

\* -------------------------------------------------------------------------
\* C12
\* -------------------------------------------------------------------------
\* the two parsed lists of the row differ in length
Mismatched(row) ==
  Len(parsePipeSeparatedField(row.tutorialTitles))
    # Len(parsePipeSeparatedField(row.tutorialUrls))

\* the first titles paired with the first urls, as many as the shorter list has
PairedUpToShorter(row) ==
  LET titles == parsePipeSeparatedField(row.tutorialTitles)
      urls == parsePipeSeparatedField(row.tutorialUrls)
  IN [j \in 1..Min(Len(titles), Len(urls)) |-> [title |-> titles[j], url |-> urls[j]]]

\* what the rows that pair at least one tutorial give, row after row
RECURSIVE PairedRows(_)
PairedRows(rows) ==
  IF rows = <<>> THEN <<>>
  ELSE (IF PairedUpToShorter(Head(rows)) # <<>>
        THEN <<PairedUpToShorter(Head(rows))>> ELSE <<>>) \o PairedRows(Tail(rows))

TruncatedToShorter ==
  /\ Len(ret.value.sections) = Len(PairedRows(arg.value))
  /\ \A k \in 1..Len(ret.value.sections) :
       ret.value.sections[k].tutorials = PairedRows(arg.value)[k]

NoTutorialMissingField ==
  \A k \in 1..Len(ret.value.sections) :
    \A j \in 1..Len(ret.value.sections[k].tutorials) :
      /\ ret.value.sections[k].tutorials[j].title # <<>>
      /\ ret.value.sections[k].tutorials[j].url # <<>>

HasMismatchedRow == \E i \in 1..Len(arg.value) : Mismatched(arg.value[i])

\* C12 as stated: for a homepage row whose tutorialTitles and tutorialUrls
\* lists differ in length, both are cut to the shorter length, every
\* tutorial of the output has a non-empty title and a non-empty url, and
\* neither the row nor its file fails because of the mismatch.
C12_MismatchNeverFails ==
  (ret.fn = "transformHomepageData" /\ HasMismatchedRow) =>
    /\ TruncatedToShorter
    /\ NoTutorialMissingField
    /\ ~ret.threw

\* C12, amended: for a homepage row whose tutorialTitles and tutorialUrls
\* lists differ in length, both are cut to the shorter length and every
\* tutorial of the output has a non-empty title and a non-empty url; the
\* file fails (validateHomepageData, no section) exactly when the cut
\* leaves no row of it with a tutorial.
C12_MismatchTruncated ==
  (ret.fn = "transformHomepageData" /\ HasMismatchedRow) =>
    /\ TruncatedToShorter
    /\ NoTutorialMissingField
    /\ ret.threw <=> (PairedRows(arg.value) = <<>>)

\* a row with two titles and one url has given a section of one tutorial
C12_Witness ==
  /\ ret.fn = "transformHomepageData"
  /\ Len(arg.value) = 1
  /\ Len(parsePipeSeparatedField(arg.value[1].tutorialTitles)) = 2
  /\ Len(parsePipeSeparatedField(arg.value[1].tutorialUrls)) = 1
  /\ ~ret.threw
  /\ Len(ret.value.sections) = 1
  /\ Len(ret.value.sections[1].tutorials) = 1

\* -------------------------------------------------------------------------
\* C13
\* -------------------------------------------------------------------------
SlugChars ==
  {"a", "b", "c", "d", "e", "f", "g", "h", "i", "j", "k", "l", "m", "n", "o", "p",
   "q", "r", "s", "t", "u", "v", "w", "x", "y", "z",
   "0", "1", "2", "3", "4", "5", "6", "7", "8", "9", "-"}

\* lower-case letters, digits and single hyphens, no hyphen at either end
IsSlug(s) ==
  /\ \A i \in 1..Len(s) : s[i] \in SlugChars
  /\ s # <<>> => (s[1] # "-" /\ s[Len(s)] # "-")
  /\ \A i \in 1..(Len(s) - 1) : ~(s[i] = "-" /\ s[i + 1] = "-")

JetpackComposeSlug ==
  <<"j", "e", "t", "p", "a", "c", "k", "-", "c", "o", "m", "p", "o", "s", "e">>

\* C13: the Subject id derived from a source file name is a lower-case slug
\* (underscores and spaces turned into hyphens, other characters stripped,
\* hyphens neither repeated nor at an end); Jetpack_Compose.xlsx gives the
\* id "jetpack-compose" and the artifact jetpack-compose.json.
C13_IdIsSlug ==
  ret.fn \in {"subjectName", "subjectNameV3"} =>
    /\ IsSlug(ret.value[1])
    /\ arg.value = JetpackComposeXlsx =>
         /\ ret.value[1] = JetpackComposeSlug
         /\ ret.output = JetpackComposeSlug \o DotJson

\* -------------------------------------------------------------------------
\* C14
\* -------------------------------------------------------------------------
\* C14: the derivation of a subject id from a name is idempotent: applied
\* to the id it has given, it gives that id again, whatever the name (one
\* ending in '.xlsx' or '.xls' or holding '_home' included).
C14_DerivationIdempotent ==
  (ret.fn \in {"subjectName", "subjectNameV3"} /\ Len(ret.value) = 2) =>
    ret.value[2] = ret.value[1]

\* -------------------------------------------------------------------------
\* C15
\* -------------------------------------------------------------------------
\* C15: for the subject 'blogs' no content item has a section or a type
\* field and the Subject record has no sections field; for any other subject
\* every content item has a type and a section (the row's, or "General"
\* when the row has none) and the Subject record has its sections.
C15_BlogsOmitSectionAndType ==
  ret.fn \in {"transformExcelDataOptimized", "transformExcelDataOptimizedV3"} =>
    LET rows == arg.value.rows
        content == ret.value.content
    IN /\ Len(content) = Len(rows)
       /\ IF arg.value.subjectName = Blogs
          THEN /\ \A i \in 1..Len(content) :
                    /\ "section" \notin DOMAIN content[i]
                    /\ "type" \notin DOMAIN content[i]
               /\ "sections" \notin DOMAIN ret.value
          ELSE /\ \A i \in 1..Len(content) :
                    /\ "type" \in DOMAIN content[i]
                    /\ "section" \in DOMAIN content[i]
                    /\ content[i].section =
                         (IF rows[i].section # <<>> THEN rows[i].section ELSE General)
               /\ "sections" \in DOMAIN ret.value

\* -------------------------------------------------------------------------
\* C16
\* -------------------------------------------------------------------------
\* C16: for a content row without a shortDesc of its own, the shortDesc
\* derived from its content is at most 155 characters long, however long
\* the content is.
C16_ShortDescAtMostLimit ==
  (ret.fn = "shortDesc" /\ arg.value.shortDesc = <<>>) =>
    Len(ret.value) <= ShortDescLimit

\* -------------------------------------------------------------------------
\* C17
\* -------------------------------------------------------------------------
\* the entries of the sitemap with this path (the root has the empty path)
EntriesWithUrl(entries, u) == {k \in 1..Len(entries) : entries[k].url = u}

SubjectArtifacts == {n \in DOMAIN cache : cache[n].type # "homepage"}

\* /<subjectId>/<url> of item i of a Subject artifact
ItemPath(data, i) == <<"/">> \o data.id \o <<"/">> \o data.content[i].url

\* C17: the sitemap written by generateSEOFiles has exactly one entry for
\* the site root and, for every content item of every Subject artifact of
\* the cache, exactly one entry /<subjectId>/<url> (as many entries of a
\* path as items have it); it has 1 + manifest.totalPages entries, and none
\* of them comes from a Homepage Document.
C17_SitemapOneEntryPerItem ==
  "sitemap.xml" \in written =>
    LET entries == sitemap[1]
    IN /\ Cardinality(EntriesWithUrl(entries, <<>>)) = 1
       /\ \A n \in SubjectArtifacts : \A i \in 1..Len(cache[n].content) :
            Cardinality(EntriesWithUrl(entries, ItemPath(cache[n], i)))
              = Cardinality({j \in 1..Len(cache[n].content) :
                               cache[n].content[j].url = cache[n].content[i].url})
       /\ Len(entries) = 1 + manifest.totalPages
       /\ \A k \in 1..Len(entries) :
            \/ entries[k].url = <<>>
            \/ \E n \in SubjectArtifacts : \E i \in 1..Len(cache[n].content) :
                 entries[k].url = ItemPath(cache[n], i)

\* a run has written a sitemap of the root and two pages while the cache
\* holds a Homepage Document
C17_Witness ==
  /\ pc = "done"
  /\ "sitemap.xml" \in written
  /\ Len(sitemap[1]) = 3
  /\ \E n \in DOMAIN cache : cache[n].type = "homepage"

\* -------------------------------------------------------------------------
\* C19
\* -------------------------------------------------------------------------
RECURSIVE Flatten(_)
Flatten(seqs) == IF seqs = <<>> THEN <<>> ELSE Head(seqs) \o Flatten(Tail(seqs))

AfterProcess == {"copy"} \cup AfterCopy

\* C19: the chunks of processFilesInParallel are a partition of the changed
\* files; every changed file is passed to processExcelFile exactly once in
\* a run (none left out, none taken by two workers, none tried again after
\* an error), and this.stats gets the chunks' counts only once all chunks
\* have completed.
C19_EachChangedFileOnce ==
  /\ pc = "process" =>
       /\ Flatten(chunks) = changedFiles
       /\ \A i, j \in 1..Len(changedFiles) : changedFiles[i] = changedFiles[j] => i = j
       /\ \A f \in FileNames : attempts[f] <= 1
       /\ stats.filesProcessed = 0 /\ stats.totalPages = 0 /\ stats.errors = 0
  /\ pc \in AfterProcess =>
       /\ \A f \in FileNames :
            attempts[f] = IF InList(changedFiles, f) THEN 1 ELSE 0
       /\ stats.filesProcessed + stats.errors = Len(changedFiles)

\* three changed files went through two chunks, one of them failed, and the
\* counts have been merged
C19_Witness ==
  /\ pc = "copy"
  /\ Len(chunks) = 2
  /\ Len(changedFiles) = 3
  /\ stats.errors = 1
  /\ stats.filesProcessed = 2

\* -------------------------------------------------------------------------
\* C20
\* -------------------------------------------------------------------------
\* C20: however many files have changed, processFilesInParallel starts at
\* most stats.parallelWorkers = min(CPU count, 8) processChunk workers at a
\* time.
C20_WorkersWithinPool ==
  pc = "process" => Len(chunks) <= parallelWorkers

\* -------------------------------------------------------------------------
\* C18
\* -------------------------------------------------------------------------
\* the artifact of the subject is not in the directory, or does not parse
ArtifactMissing(files, id) ==
  \/ id \o DotJson \notin DOMAIN files
  \/ files[id \o DotJson] = Unparsable

\* the ids manifest.json lists (none when it is absent or does not parse)
ListedIn(file) ==
  IF file = <<>> \/ file[1] = Unparsable THEN {}
  ELSE {file[1].subjects[i].id : i \in 1..Len(file[1].subjects)}

ResultIds(results) == {results[i].id : i \in 1..Len(results)}

\* C18 as stated: the reader returns instead of throwing on missing data.
\* When manifest.json is absent getTutorials returns the empty list; a
\* subject the manifest lists whose artifact is missing or unparsable is
\* not in the result of getTutorials, and getTutorialBySubject returns null
\* for it; getTutorialHomeData returns null when tutorial_home.json is absent.
C18_MissingDataIsNotFound ==
  /\ returned.fn = "getTutorials" =>
       /\ returned.before.manifestFile = <<>> => returned.value = <<>>
       /\ \A id \in ListedIn(returned.before.manifestFile) :
            ArtifactMissing(returned.before.cache, id) => id \notin ResultIds(returned.value)
  /\ returned.fn = "getTutorialBySubject" =>
       (ArtifactMissing(returned.before.cache, returned.arg) => returned.value = <<>>)
  /\ returned.fn = "getTutorialHomeData" =>
       (TutorialHome \o DotJson \notin DOMAIN returned.before.cache => returned.value = <<>>)

\* C18, amended: the reader returns instead of throwing on missing data.
\* When manifest.json is absent and no manifest is memoized getTutorials
\* returns the empty list; a subject whose artifact is missing or
\* unparsable and is not memoized is not in the result of getTutorials, and
\* getTutorialBySubject returns null for it; getTutorialHomeData returns
\* null when tutorial_home.json is absent or unparsable.
C18_UnmemoizedMissingDataIsNotFound ==
  /\ returned.fn = "getTutorials" =>
       /\ (returned.before.manifestFile = <<>> /\ returned.before.cachedManifest = <<>>)
            => returned.value = <<>>
       /\ \A id \in ReaderIds :
            (ArtifactMissing(returned.before.cache, id)
               /\ id \notin DOMAIN returned.before.cachedDataMap)
              => id \notin ResultIds(returned.value)
  /\ returned.fn = "getTutorialBySubject" =>
       ((ArtifactMissing(returned.before.cache, returned.arg)
           /\ returned.arg \notin DOMAIN returned.before.cachedDataMap)
          => returned.value = <<>>)
  /\ returned.fn = "getTutorialHomeData" =>
       ((\/ TutorialHome \o DotJson \notin DOMAIN returned.before.cache
         \/ returned.before.cache[TutorialHome \o DotJson] = Unparsable)
          => returned.value = <<>>)

\* getTutorials, nothing memoized, with a manifest that lists a and c: the
\* artifact of a is read, the one of c is missing, and the result is a alone
C18_Witness ==
  /\ returned.fn = "getTutorials"
  /\ returned.before.cachedManifest = <<>>
  /\ returned.before.cachedDataMap = <<>>
  /\ ListedIn(returned.before.manifestFile) = ReaderIds
  /\ ~ArtifactMissing(returned.before.cache, <<"a">>)
  /\ <<"c">> \o DotJson \notin DOMAIN returned.before.cache
  /\ Len(returned.value) = 1
  /\ returned.value[1].id = <<"a">>

\* -------------------------------------------------------------------------
\* C21
\* -------------------------------------------------------------------------
\* the source files of the directory when the run started
SourcesAtStart == {f \in FileNames : lastSrc[f].kind # "absent"}

\* C21: at the end of every completed run the final statistics account for
\* every source file exactly once: filesProcessed + errors is the number of
\* changed files, filesSkipped the number of unchanged files, and
\* filesProcessed + filesSkipped + errors the number of source files (each
\* of which is in one of the two lists, once).
C21_StatsAccountForEveryFile ==
  pc = "done" =>
    /\ stats.filesProcessed + stats.errors = Len(changedFiles)
    /\ stats.filesSkipped = Len(unchangedFiles)
    /\ stats.filesProcessed + stats.filesSkipped + stats.errors = Cardinality(SourcesAtStart)
    /\ \A f \in SourcesAtStart :
         Cardinality({i \in 1..Len(changedFiles) : changedFiles[i] = f})
           + Cardinality({i \in 1..Len(unchangedFiles) : unchangedFiles[i] = f}) = 1

\* a completed run of three source files: one failed, and two skipped, one
\* of which has no artifact in the cache
C21_Witness ==
  /\ pc = "done"
  /\ Cardinality(SourcesAtStart) = 3
  /\ stats.filesProcessed = 0
  /\ stats.errors = 1
  /\ stats.filesSkipped = 2
  /\ \E i \in 1..Len(unchangedFiles) : outputFilename(unchangedFiles[i]) \notin DOMAIN cache

\* -------------------------------------------------------------------------
\* C22
\* -------------------------------------------------------------------------
\* the row has none of the section fields
NoSectionFields(row) ==
  row.sectionName = <<>> /\ row.tutorialTitles = <<>> /\ row.tutorialUrls = <<>>

\* the row carries section data: tutorials with their titles and urls
HasSectionData(row) == row.tutorialTitles # <<>> /\ row.tutorialUrls # <<>>

\* layout (b): a first row of metadata alone, then section rows
LayoutB(rows) ==
  /\ rows[1].title # <<>>
  /\ NoSectionFields(rows[1])
  /\ \A i \in 2..Len(rows) : HasSectionData(rows[i])

\* layout (a): every row carries metadata and section data
LayoutA(rows) ==
  \A i \in 1..Len(rows) : rows[i].title # <<>> /\ HasSectionData(rows[i])

\* section is the section of the row: its name (General when the row has
\* none) and tutorials made of titles and urls of the row, in their order
SectionOfRow(section, row) ==
  /\ section.name = (IF row.sectionName # <<>> THEN row.sectionName ELSE General)
  /\ section.tutorials # <<>>
  /\ \A j \in 1..Len(section.tutorials) :
       /\ section.tutorials[j].title = Split(row.tutorialTitles, "|")[j]
       /\ section.tutorials[j].url = Split(row.tutorialUrls, "|")[j]

UpToDateInLedger(f) ==
  /\ hashFile # <<>>
  /\ src[f] \in Bytes
  /\ f \in DOMAIN hashFile[1]
  /\ hashFile[1][f] = getFileHash(src[f])

\* the cache holds an artifact produced from the bytes f has now, by one of
\* the runs so far
ArtifactOfCurrentBytes(f) ==
  /\ ~FailsToProcess(f, src[f])
  /\ outputFilename(f) \in DOMAIN cache
  /\ \E t \in 1..runs : cache[outputFilename(f)] = transformedData(f, src[f], t)

\* C23: ledger/artifact coherence. After any sequence of completed runs,
\* every source file whose persisted ledger entry equals the hash of its
\* current bytes has an artifact in the cache directory that was produced
\* from those bytes; in particular a file whose processing failed in one
\* run is not recorded as up to date and is classified changed again by
\* the next run.
C23_LedgerEntryMeansArtifact ==
  /\ pc = "done" =>
       \A f \in FileNames : UpToDateInLedger(f) => ArtifactOfCurrentBytes(f)
  /\ (pc \in AfterProcess /\ prev.completed) =>
       \A f \in FileNames :
         (prev.src[f] = lastSrc[f] /\ FailsToProcess(f, lastSrc[f])) => InList(changedFiles, f)

\* -------------------------------------------------------------------------
\* C24
\* -------------------------------------------------------------------------
\* the ids of the artifacts of the source files present when the run started
SourceIds == {ArtifactId(f) : f \in SourcesAtStart}

\* the sitemap entry is a page of a subject whose source file is present
EntryOfSource(entry) ==
  \E f \in SourcesAtStart :
    /\ ~isHomepage(f)
    /\ LET prefix == <<"/">> \o subjectNameOf(f) \o <<"/">>
       IN /\ Len(entry.url) > Len(prefix)
          /\ SubSeq(entry.url, 1, Len(prefix)) = prefix

\* C24: every subject and homepage listed in the manifest written by a
\* run, and every non-root sitemap entry, corresponds to a source file
\* present in the source directory during that run: once a source
\* spreadsheet is deleted, the next run no longer lists its subject, and
\* the ledger keeps no entry for it.
C24_ListedMeansSourcePresent ==
  /\ "manifest.json" \in written =>
       /\ \A i \in 1..Len(manifestFile[1].subjects) :
            manifestFile[1].subjects[i].id \in SourceIds
       /\ \A i \in 1..Len(manifestFile[1].homepages) :
            manifestFile[1].homepages[i].id \in SourceIds
  /\ "sitemap.xml" \in written =>
       \A k \in 1..Len(sitemap[1]) :
         sitemap[1][k].url # <<>> => EntryOfSource(sitemap[1][k])
  /\ "file-hashes.json" \in written =>
       DOMAIN hashFile[1] \subseteq SourcesAtStart

\* -------------------------------------------------------------------------
\* C25
\* -------------------------------------------------------------------------
\* C25: within one run, distinct accepted source files (.xlsx or .xls, any
\* letter case, with or without the _home suffix) are mapped by
\* processExcelFile to distinct artifact paths, so no artifact written in a
\* run is overwritten by another source file of the same run, and each
\* artifact name has the form <id>.json or <id>_home.json with no
\* spreadsheet extension left in <id>.
C25_ArtifactPathsDistinct ==
  (ret.fn \in {"subjectName", "subjectNameV3"}) =>
    LET id == ret.value[1]
        OutputOf(name) == IF ret.fn = "subjectName" THEN outputFilename(name)
                          ELSE outputFilenameV3(name)
    IN /\ IsExcelName(arg.value)
       /\ ret.output \in {id \o DotJson, id \o HomeMark \o DotJson}
       /\ ~Includes(id, DotXls)
       /\ \A other \in SourceNames :
            (IsExcelName(other) /\ other # arg.value) => OutputOf(other) # ret.output

\* -------------------------------------------------------------------------
\* C26
\* -------------------------------------------------------------------------
\* C26: in the V3 optimizer every subject contributes its page count to
\* stats.totalPages exactly once per run, whether its file was changed or
\* unchanged, so the saved manifest.totalPages equals the sum of totalPages
\* over manifest.subjects.
C26_V3TotalPagesIsSubjectSum ==
  "manifest.json" \in written =>
    /\ manifestFile[1].totalPages = SumField(manifestFile[1].subjects, "totalPages")
    /\ \A f \in FileNames :
         (~isHomepage(f) /\ InList(unchangedFiles, f)
            /\ outputFilenameV3(f) \in DOMAIN cache)
           => contrib[f] = Len(cache[outputFilenameV3(f)].content)

\* -------------------------------------------------------------------------
\* C27
\* -------------------------------------------------------------------------
\* C27: at every point during and after generateStaticAPI, every subject
\* and homepage listed in public/api/manifest.json has its data file
\* present in public/api/data (the public manifest never becomes visible
\* before the data files it references).
C27_PublicManifestAfterData ==
  apiManifest # <<>> =>
    /\ \A i \in 1..Len(apiManifest[1].subjects) :
         apiManifest[1].subjects[i].id \o DotJson \in DOMAIN apiData
    /\ \A i \in 1..Len(apiManifest[1].homepages) :
         apiManifest[1].homepages[i].id \o DotJson \in DOMAIN apiData

\* -------------------------------------------------------------------------
\* C28
\* -------------------------------------------------------------------------
\* the title and the url are the segments at one and the same place of the
\* two pipe-separated cells of the row, as written in the spreadsheet
PairedAsWritten(tutorial, row) ==
  LET titles == Split(row.tutorialTitles, "|")
      urls == Split(row.tutorialUrls, "|")
  IN \E i \in 1..Min(Len(titles), Len(urls)) :
       /\ Trim(titles[i]) = tutorial.title
       /\ Trim(urls[i]) = tutorial.url

\* C28: in transformHomepageData the i-th tutorial of a row pairs the i-th
\* pipe-delimited title with the i-th pipe-delimited URL of that row as
\* written in the spreadsheet: an empty or whitespace-only segment in one
\* list never shifts later titles onto other URLs.
C28_TitlesKeepTheirUrls ==
  (ret.fn = "transformHomepageData") =>
    \A k \in 1..Len(ret.value.sections) :
      \A j \in 1..Len(ret.value.sections[k].tutorials) :
        \E r \in 1..Len(arg.value) :
          PairedAsWritten(ret.value.sections[k].tutorials[j], arg.value[r])

\* -------------------------------------------------------------------------
\* C29
\* -------------------------------------------------------------------------
\* C29: excelReader memoization. After a successful readExcelFile(filename)
\* every later call for that filename returns the same cached object
\* without reading the disk until clearCache() is called; a failed read
\* (missing file, zero rows, parse error) returns null and is not cached,
\* so a later call reads the disk again; after clearCache() the next call
\* for any filename reads the disk.
C29_ReadsAreMemoized ==
  /\ returned.fn = "readExcelFile" =>
       LET f == returned.arg
           b == returned.before
           good == b.src[f].kind = "sheet" /\ b.src[f].rows # <<>>
       IN /\ f \in DOMAIN b.dataCache =>
               /\ ~returned.readDisk
               /\ returned.value = <<b.dataCache[f]>>
               /\ returned.after = b.dataCache
          /\ (f \notin DOMAIN b.dataCache /\ good) =>
               /\ returned.readDisk
               /\ Len(returned.value) = 1
               /\ Len(returned.value[1].content) = Len(b.src[f].rows)
               /\ returned.after = (f :> returned.value[1]) @@ b.dataCache
          /\ (f \notin DOMAIN b.dataCache /\ ~good) =>
               /\ returned.readDisk
               /\ returned.value = <<>>
               /\ returned.after = b.dataCache
  /\ returned.fn = "clearCache" => returned.after = <<>>

\* a call answered from dataCache after the file has been removed
C29_Witness ==
  /\ returned.fn = "readExcelFile"
  /\ returned.arg \in DOMAIN returned.before.dataCache
  /\ returned.before.src[returned.arg].kind = "absent"
  /\ returned.value # <<>>
  /\ ~returned.readDisk

\* -------------------------------------------------------------------------
\* C30
\* -------------------------------------------------------------------------
\* C30: DeploymentPreparer.prepare succeeds only if the cache directory
\* holds at least one Subject or Homepage artifact produced by the pipeline
\* (a cache holding only manifest.json is rejected) and all of sitemap.xml,
\* robots.txt, api/manifest.json and deployment-info.json exist; when any
\* step fails, no later step runs and the process exits non-zero.
C30_PrepareNeedsArtifacts ==
  /\ preparer.pc = "done" =>
       /\ preparer.exitCode = 0
       /\ DOMAIN cache # {}
       /\ sitemap # <<>> /\ robots /\ apiManifest # <<>> /\ deploymentInfo
  /\ preparer.steps = SubSeq(PreparerSteps, 1, Len(preparer.steps))
  /\ preparer.pc = "failed" => preparer.exitCode = 1
  /\ preparer.exitCode = 1 => preparer.pc = "failed"

====
